---- MODULE Spec2Model ----
(***************************************************************************)
(* langchain-pubmed: the retry-aware transport (RetryableHttpClient), the  *)
(* search-then-fetch orchestrator (PubMedAPIWrapper) and the metadata      *)
(* normalizer (PubMedParser), as state machines.                           *)
(*                                                                         *)
(* Strings that the program takes apart or joins are sequences of          *)
(* one-character strings; JavaScript values are tagged records.            *)
(***************************************************************************)
EXTENDS Integers, Sequences, FiniteSets, TLC

VARIABLES
    maxRetry,           \* RetryableHttpClient.maxRetry (readonly field)
    initialSleepTime,   \* RetryableHttpClient.initialSleepTime (readonly field)
    calls,              \* the activations of RetryableHttpClient.fetch, by slot
    wrapper,            \* the options of the PubMedAPIWrapper that owns the client
    corpus,             \* the upstream service: the document it holds per identifier
    ops,                \* the retrieval operations (lazyLoad, load, ...) by slot
    extracted           \* what PubMedParser was last applied to, and its result

vars == <<maxRetry, initialSleepTime, calls, wrapper, corpus, ops, extracted>>

\* What no action changes after construction.
fixed == <<maxRetry, initialSleepTime, wrapper, corpus>>

(***************************************************************************)
(* Bounds of the model.                                                    *)
(***************************************************************************)
MaxRetryBound == 3

CallIds == {1, 2}

\* The maxRetry options explored; -1 stands for a negative budget.
MaxRetryOptions == (-1) .. MaxRetryBound

\* The initialSleepTime options explored (ms): below the 100 ms floor, the
\* value the tests use, and the default.
SleepTimeOptions == {50, 200}

(***************************************************************************)
(* Values                                                                  *)
(***************************************************************************)
\* An optional context label: <<>> is undefined, <<s>> is the string s (the
\* sequence of its characters).
Contexts == {<<>>, << <<>> >>, << <<"t", "e", "s", "t">> >>}

\* The URL of a direct caller of the transport.
DirectUrl == <<"https://example.com">>

\* What the network can answer: a response with a status, or a thrown fault.
Statuses == {200, 204, 304, 404, 429, 500}

StatusText(status) ==
    CASE status = 200 -> "OK"
      [] status = 204 -> "No Content"
      [] status = 304 -> "Not Modified"
      [] status = 404 -> "Not Found"
      [] status = 429 -> "Too Many Requests"
      [] OTHER -> "Internal Server Error"

\* Response.ok of the Fetch API: the status is in 200..299.
ResponseOk(response) == response.status >= 200 /\ response.status <= 299

NoBody == [kind |-> "none"]

MkResponse(status, body) ==
    [status |-> status, statusText |-> StatusText(status), body |-> body]

\* An exception value: cls is the class the value is an instance of, text the
\* head of its message, label the formatted context, and the numbers that the
\* message carries (-1: none).
MkError(cls, text, label, status, statusText, retries) ==
    [cls |-> cls, text |-> text, label |-> label, status |-> status,
     statusText |-> statusText, retries |-> retries]

\* Transport-level faults the global fetch can reject with: a connection
\* failure, and a fault whose message happens to contain "Rate limit exceeded".
Faults ==
    { MkError("TypeError", "fetch failed", <<>>, -1, "", -1),
      MkError("Error", "Gateway: Rate limit exceeded", <<>>, -1, "", -1) }

\* String.prototype.includes("Rate limit exceeded") on the error's message.
MessageIncludesRateLimitExceeded(error) ==
    error.text \in {"Rate limit exceeded", "Gateway: Rate limit exceeded"}

NoValue == [kind |-> "none"]

\* formatContext
formatContext(context) ==
    IF context # <<>> /\ context[1] # <<>>
    THEN <<" (">> \o context[1] \o <<")">>
    ELSE <<>>

\* createRateLimitError
createRateLimitError(context) ==
    MkError("Error", "Rate limit exceeded", formatContext(context), -1, "", maxRetry)

\* createHttpError
createHttpError(response, context) ==
    MkError("HttpError", "HTTP error", formatContext(context),
            response.status, response.statusText, -1)

\* createMaxRetriesError
createMaxRetriesError(context) ==
    MkError("Error", "Failed to fetch", formatContext(context), -1, "", maxRetry)

\* new RetryableError("Rate limit")
RetryableError == MkError("RetryableError", "Rate limit", <<>>, -1, "", -1)

\* A mutated shouldRetryError: HTTP errors are retried like network faults.
shouldRetryErrorRetriesHttp(error, retry) ==
    IF retry >= maxRetry THEN FALSE
    ELSE IF error.cls = "RetryableError" THEN TRUE
    ELSE IF MessageIncludesRateLimitExceeded(error) THEN FALSE
    ELSE TRUE

\* A mutated shouldRetryError: the budget check is off by one.
shouldRetryErrorOffByOne(error, retry) ==
    IF retry > maxRetry THEN FALSE
    ELSE IF error.cls = "RetryableError" THEN TRUE
    ELSE IF error.cls = "HttpError" THEN FALSE
    ELSE IF MessageIncludesRateLimitExceeded(error) THEN FALSE
    ELSE TRUE

\* shouldRetryError
shouldRetryError(error, retry) ==
    IF retry >= maxRetry THEN FALSE
    ELSE IF error.cls = "RetryableError" THEN TRUE
    ELSE IF error.cls = "HttpError" THEN FALSE
    ELSE IF MessageIncludesRateLimitExceeded(error) THEN FALSE
    ELSE TRUE

\* The line logRateLimit prints: the seconds are sleepTime / 1000 with two
\* decimals, kept here as the milliseconds they are computed from.
logRateLimit(retry, sleepTime, context) ==
    [line |-> "Rate limited", label |-> formatContext(context),
     waitMs |-> sleepTime, attempt |-> retry + 1, of |-> maxRetry]

\* The line logNetworkError prints (it carries no waiting time).
logNetworkError(retry, context) ==
    [line |-> "Network error", label |-> formatContext(context),
     waitMs |-> -1, attempt |-> retry + 1, of |-> maxRetry]

(***************************************************************************)
(* sleep(ms): jitter = ms * 0.25 * (Math.random() * 2 - 1), duration =     *)
(* max(100, ms + jitter).  Math.random() is k / (2 * JitterDen) for        *)
(* k in 0 .. 2 * JitterDen - 1; durations are in units of                  *)
(* 1 / (4 * JitterDen) ms so that they stay integers.                      *)
(***************************************************************************)
JitterDen == 2

DurationUnit == 4 * JitterDen

RandomSteps == 0 .. (2 * JitterDen - 1)

Max(a, b) == IF a >= b THEN a ELSE b

\* A mutated sleep: the jitter is +-50% and there is no floor.
sleepDurationWideNoFloor(ms, k) ==
    ms * DurationUnit + 2 * ms * (k - JitterDen)

sleepDuration(ms, k) ==
    Max(100 * DurationUnit, ms * DurationUnit + ms * (k - JitterDen))


(***************************************************************************)
(* JavaScript values, as the XML parser and JSON produce them.  A string   *)
(* is the sequence of its characters.                                      *)
(***************************************************************************)
Undefined == [t |-> "undefined"]
Str(s) == [t |-> "string", s |-> s]
Num(n) == [t |-> "number", n |-> n]
Arr(a) == [t |-> "array", a |-> a]
Bool(b) == [t |-> "boolean", b |-> b]
\* An object: its keys in insertion order and their values.
Obj(k, v) == [t |-> "object", k |-> k, v |-> v]
EmptyObject == Obj(<<>>, <<>>)

\* value === undefined || value === null
IsNullish(value) == value.t = "undefined"

\* "key" in value, for an object.
HasKey(value, key) ==
    value.t = "object" /\ \E i \in 1 .. Len(value.k) : value.k[i] = key

\* value.key where value is not nullish: a missing property, and any property
\* of a string, a number or an array that the parser can name, is undefined.
Get(value, key) ==
    IF HasKey(value, key)
    THEN value.v[CHOOSE i \in 1 .. Len(value.k) : value.k[i] = key]
    ELSE Undefined

\* value?.key
GetOpt(value, key) == IF IsNullish(value) THEN Undefined ELSE Get(value, key)

\* !value
IsFalsy(value) ==
    \/ value.t = "undefined"
    \/ value.t = "string" /\ value.s = <<>>
    \/ value.t = "number" /\ value.n = 0
    \/ value.t = "boolean" /\ ~value.b

Digit(d) == CASE d = 0 -> "0" [] d = 1 -> "1" [] d = 2 -> "2" [] d = 3 -> "3"
              [] d = 4 -> "4" [] d = 5 -> "5" [] d = 6 -> "6" [] d = 7 -> "7"
              [] d = 8 -> "8" [] OTHER -> "9"

\* String(n) for a non-negative integer.
RECURSIVE Digits(_)
Digits(n) == IF n < 10 THEN <<Digit(n)>> ELSE Digits(n \div 10) \o <<Digit(n % 10)>>

\* Array.prototype.join on strings.
RECURSIVE Join(_, _)
Join(strings, sep) ==
    IF strings = <<>> THEN <<>>
    ELSE IF Len(strings) = 1 THEN strings[1]
    ELSE strings[1] \o sep \o Join(Tail(strings), sep)

Newline == <<"\n">>

\* String(value), as template literals and String() apply it.
RECURSIVE StringOf(_)
StringOf(value) ==
    CASE value.t = "string" -> value.s
      [] value.t = "number" -> Digits(value.n)
      [] value.t = "boolean" ->
           IF value.b THEN <<"t", "r", "u", "e">> ELSE <<"f", "a", "l", "s", "e">>
      [] value.t = "array" ->
           Join([i \in 1 .. Len(value.a) |-> StringOf(value.a[i])], <<",">>)
      [] value.t = "object" ->
           <<"[", "o", "b", "j", "e", "c", "t", " ", "O", "b", "j", "e", "c", "t", "]">>
      [] OTHER -> <<"u", "n", "d", "e", "f", "i", "n", "e", "d">>

\* The characters of a string as JSON.stringify quotes them.
RECURSIVE JsonEscape(_)
JsonEscape(s) ==
    IF s = <<>> THEN <<>>
    ELSE (CASE s[1] = "\"" -> <<"\\", "\"">>
            [] s[1] = "\\" -> <<"\\", "\\">>
            [] s[1] = "\n" -> <<"\\", "n">>
            [] OTHER -> <<s[1]>>) \o JsonEscape(Tail(s))

JsonQuote(s) == <<"\"">> \o JsonEscape(s) \o <<"\"">>

\* The characters of the property names that occur inside titles.
KeyChars(key) ==
    CASE key = "#text" -> <<"#", "t", "e", "x", "t">>
      [] key = "i" -> <<"i">>
      [] key = "sub" -> <<"s", "u", "b">>
      [] key = "sup" -> <<"s", "u", "p">>
      [] OTHER -> <<key>>

\* JSON.stringify(value) for a value that is not undefined.
RECURSIVE JsonText(_)
JsonText(value) ==
    CASE value.t = "string" -> JsonQuote(value.s)
      [] value.t = "number" -> Digits(value.n)
      [] value.t = "boolean" ->
           IF value.b THEN <<"t", "r", "u", "e">> ELSE <<"f", "a", "l", "s", "e">>
      [] value.t = "array" ->
           <<"[">> \o Join([i \in 1 .. Len(value.a) |->
                              IF value.a[i].t = "undefined"
                              THEN <<"n", "u", "l", "l">>
                              ELSE JsonText(value.a[i])], <<",">>) \o <<"]">>
      [] value.t = "object" ->
           LET kept == SelectSeq([i \in 1 .. Len(value.k) |-> i],
                                 LAMBDA i : value.v[i].t # "undefined")
           IN <<"{">> \o Join([j \in 1 .. Len(kept) |->
                                 JsonQuote(KeyChars(value.k[kept[j]])) \o <<":">>
                                 \o JsonText(value.v[kept[j]])], <<",">>) \o <<"}">>
      [] OTHER -> <<>>

\* JSON.stringify(value) ?? "": JSON.stringify(undefined) is undefined.
JsonStringifyOrEmpty(value) ==
    IF value.t = "undefined" THEN <<>> ELSE JsonText(value)

\* String.prototype.padStart(2, "0")
PadStart2(s) == IF Len(s) >= 2 THEN s ELSE IF Len(s) = 1 THEN <<"0">> \o s ELSE <<"0", "0">>

\* String.prototype.substring(0, n) for n >= 0
Substring0(s, n) == SubSeq(s, 1, IF n < Len(s) THEN n ELSE Len(s))

(***************************************************************************)
(* PubMedParser                                                            *)
(***************************************************************************)
NoAbstractAvailable ==
    <<"N", "o", " ", "a", "b", "s", "t", "r", "a", "c", "t", " ",
      "a", "v", "a", "i", "l", "a", "b", "l", "e">>

\* A mutated extractArticleData: the book path is tried first.
extractArticleDataBookFirst(xmlResponse) ==
    LET set == Get(xmlResponse, "PubmedArticleSet")
        article == GetOpt(GetOpt(Get(set, "PubmedArticle"), "MedlineCitation"),
                          "Article")
        book == GetOpt(Get(set, "PubmedBookArticle"), "BookDocument")
    IN IF IsNullish(xmlResponse) \/ IsNullish(set) THEN EmptyObject
       ELSE IF ~IsNullish(book) THEN book
       ELSE IF ~IsNullish(article) THEN article
       ELSE EmptyObject

\* extractArticleData: the property chain throws (and the catch yields {})
\* exactly when PubmedArticleSet is undefined.
extractArticleData(xmlResponse) ==
    LET set == Get(xmlResponse, "PubmedArticleSet")
        article == GetOpt(GetOpt(Get(set, "PubmedArticle"), "MedlineCitation"),
                          "Article")
        book == GetOpt(Get(set, "PubmedBookArticle"), "BookDocument")
    IN IF IsNullish(xmlResponse) \/ IsNullish(set) THEN EmptyObject
       ELSE IF ~IsNullish(article) THEN article
       ELSE IF ~IsNullish(book) THEN book
       ELSE EmptyObject

\* A mutated formatAbstractArray: every entry with a text is kept, labelled
\* or not.
formatAbstractArrayKeepsUnlabelled(abstractArray) ==
    LET sections == SelectSeq(abstractArray, LAMBDA txt : HasKey(txt, "#text"))
        summaries == [i \in 1 .. Len(sections) |->
                        StringOf(Get(sections[i], "@Label")) \o <<":", " ">>
                        \o StringOf(Get(sections[i], "#text"))]
    IN IF Len(summaries) > 0 THEN Join(summaries, Newline) ELSE NoAbstractAvailable

\* formatAbstractArray
formatAbstractArray(abstractArray) ==
    LET sections == SelectSeq(abstractArray,
                              LAMBDA txt : HasKey(txt, "#text") /\ HasKey(txt, "@Label"))
        summaries == [i \in 1 .. Len(sections) |->
                        StringOf(Get(sections[i], "@Label")) \o <<":", " ">>
                        \o StringOf(Get(sections[i], "#text"))]
    IN IF Len(summaries) > 0 THEN Join(summaries, Newline) ELSE NoAbstractAvailable

\* A mutated formatAbstractObject: every value is joined, whatever its type.
formatAbstractObjectAllValues(abstractObj) ==
    IF Len(abstractObj.v) > 0
    THEN Join([i \in 1 .. Len(abstractObj.v) |-> StringOf(abstractObj.v[i])], Newline)
    ELSE NoAbstractAvailable

\* formatAbstractObject
formatAbstractObject(abstractObj) ==
    LET values == SelectSeq(abstractObj.v, LAMBDA v : v.t = "string")
    IN IF Len(values) > 0
       THEN Join([i \in 1 .. Len(values) |-> values[i].s], Newline)
       ELSE NoAbstractAvailable

\* A mutated extractAbstract: a missing abstract gives the empty string.
extractAbstractEmptyWhenMissing(articleData) ==
    LET abstractText == GetOpt(Get(articleData, "Abstract"), "AbstractText")
    IN IF IsFalsy(abstractText) THEN <<>>
       ELSE IF abstractText.t = "array" THEN formatAbstractArray(abstractText.a)
       ELSE IF abstractText.t = "string" THEN abstractText.s
       ELSE IF abstractText.t = "object" THEN formatAbstractObject(abstractText)
       ELSE NoAbstractAvailable

\* extractAbstract
extractAbstract(articleData) ==
    LET abstractText == GetOpt(Get(articleData, "Abstract"), "AbstractText")
    IN IF IsFalsy(abstractText) THEN NoAbstractAvailable
       ELSE IF abstractText.t = "array" THEN formatAbstractArray(abstractText.a)
       ELSE IF abstractText.t = "string" THEN abstractText.s
       ELSE IF abstractText.t = "object" THEN formatAbstractObject(abstractText)
       ELSE NoAbstractAvailable

\* A mutated extractPublicationDate: months and days are not padded.
extractPublicationDateUnpadded(articleData) ==
    LET given == Get(articleData, "ArticleDate")
        articleDate == IF IsNullish(given) THEN EmptyObject ELSE given
        year == Get(articleDate, "Year")
        month == Get(articleDate, "Month")
        day == Get(articleDate, "Day")
        parts == (IF IsFalsy(year) THEN <<>> ELSE <<StringOf(year)>>)
                 \o (IF IsFalsy(month) THEN <<>> ELSE <<StringOf(month)>>)
                 \o (IF IsFalsy(day) THEN <<>> ELSE <<StringOf(day)>>)
    IN Join(parts, <<"-">>)

\* extractPublicationDate
extractPublicationDate(articleData) ==
    LET given == Get(articleData, "ArticleDate")
        articleDate == IF IsNullish(given) THEN EmptyObject ELSE given
        year == Get(articleDate, "Year")
        month == Get(articleDate, "Month")
        day == Get(articleDate, "Day")
        parts == (IF IsFalsy(year) THEN <<>> ELSE <<StringOf(year)>>)
                 \o (IF IsFalsy(month) THEN <<>> ELSE <<PadStart2(StringOf(month))>>)
                 \o (IF IsFalsy(day) THEN <<>> ELSE <<PadStart2(StringOf(day))>>)
    IN Join(parts, <<"-">>)

\* A mutated extractArticleMetadata: the record is labelled with the title
\* only, the identifier is dropped.
extractArticleMetadataNoUid(uid, xmlResponse) ==
    LET articleData == extractArticleData(xmlResponse)
        title == Get(articleData, "ArticleTitle")
        copyright == GetOpt(Get(articleData, "Abstract"), "CopyrightInformation")
    IN [uid |-> <<>>,
        Title |-> IF title.t = "string" THEN title.s ELSE JsonStringifyOrEmpty(title),
        Published |-> extractPublicationDate(articleData),
        Copyright |-> IF IsNullish(copyright) THEN Str(<<>>) ELSE copyright,
        Summary |-> extractAbstract(articleData)]

\* A mutated extractArticleMetadata: a title that is no string is converted
\* as a template literal would convert it.
extractArticleMetadataTitleAsText(uid, xmlResponse) ==
    LET articleData == extractArticleData(xmlResponse)
        title == Get(articleData, "ArticleTitle")
        copyright == GetOpt(Get(articleData, "Abstract"), "CopyrightInformation")
    IN [uid |-> uid,
        Title |-> StringOf(title),
        Published |-> extractPublicationDate(articleData),
        Copyright |-> IF IsNullish(copyright) THEN Str(<<>>) ELSE copyright,
        Summary |-> extractAbstract(articleData)]

\* extractArticleMetadata; Copyright is the "Copyright Information" field,
\* which holds whatever value the document has there.
extractArticleMetadata(uid, xmlResponse) ==
    LET articleData == extractArticleData(xmlResponse)
        title == Get(articleData, "ArticleTitle")
        copyright == GetOpt(Get(articleData, "Abstract"), "CopyrightInformation")
    IN [uid |-> uid,
        Title |-> IF title.t = "string" THEN title.s ELSE JsonStringifyOrEmpty(title),
        Published |-> extractPublicationDate(articleData),
        Copyright |-> IF IsNullish(copyright) THEN Str(<<>>) ELSE copyright,
        Summary |-> extractAbstract(articleData)]

\* A mutated toDocument: Summary stays among the metadata.
toDocumentKeepsSummary(metadata) ==
    [pageContent |-> metadata.Summary,
     metadata |-> [uid |-> metadata.uid, Title |-> metadata.Title,
                   Published |-> metadata.Published,
                   Copyright |-> metadata.Copyright,
                   Summary |-> metadata.Summary]]

\* toDocument: pageContent is Summary, metadata the other fields.
toDocument(metadata) ==
    [pageContent |-> metadata.Summary,
     metadata |-> [uid |-> metadata.uid, Title |-> metadata.Title,
                   Published |-> metadata.Published,
                   Copyright |-> metadata.Copyright]]

(***************************************************************************)
(* PubMedURLBuilder.  A URL is the sequence of the pieces it is            *)
(* concatenated from: the literal pieces whole, the spliced-in strings     *)
(* character by character.                                                 *)
(***************************************************************************)
baseUrlEsearch == "https://eutils.ncbi.nlm.nih.gov/entrez/eutils/esearch.fcgi?"
baseUrlEfetch == "https://eutils.ncbi.nlm.nih.gov/entrez/eutils/efetch.fcgi?"

\* encodeURIComponent on one character of the alphabet in use: everything but
\* letters, digits and - _ . ! ~ * ' ( ) is percent-encoded.
EncodeChar(ch) ==
    CASE ch = " " -> <<"%", "2", "0">>
      [] ch = "@" -> <<"%", "4", "0">>
      [] ch = "&" -> <<"%", "2", "6">>
      [] ch = "=" -> <<"%", "3", "D">>
      [] ch = "#" -> <<"%", "2", "3">>
      [] OTHER -> <<ch>>

RECURSIVE encodeURIComponent(_)
encodeURIComponent(s) ==
    IF s = <<>> THEN <<>> ELSE EncodeChar(s[1]) \o encodeURIComponent(Tail(s))

\* buildSearchUrl
buildSearchUrl(email, apiKey, query, maxResults) ==
    <<baseUrlEsearch, "db=pubmed&term=">> \o encodeURIComponent(query)
    \o <<"&retmode=json&retmax=">> \o Digits(maxResults) \o <<"&usehistory=y">>
    \o <<"&email=">> \o encodeURIComponent(email)
    \o (IF apiKey # <<>> THEN <<"&api_key=">> \o apiKey ELSE <<>>)

\* A mutated buildFetchUrl: the api_key parameter is sent even when empty.
buildFetchUrlAlwaysKey(email, apiKey, uid, webenv) ==
    <<baseUrlEfetch, "db=pubmed&retmode=xml&id=">> \o uid \o <<"&webenv=">> \o webenv
    \o <<"&email=">> \o encodeURIComponent(email)
    \o <<"&api_key=">> \o apiKey

\* buildFetchUrl
buildFetchUrl(email, apiKey, uid, webenv) ==
    <<baseUrlEfetch, "db=pubmed&retmode=xml&id=">> \o uid \o <<"&webenv=">> \o webenv
    \o <<"&email=">> \o encodeURIComponent(email)
    \o (IF apiKey # <<>> THEN <<"&api_key=">> \o apiKey ELSE <<>>)

(***************************************************************************)
(* The upstream service.                                                   *)
(***************************************************************************)
MaxIds == 2

Uids == {<<"1", "1">>, <<"2", "2">>}

Webenvs == {<<"W", "1">>, <<"W", "2">>}

\* The identifier lists a search may answer with.
RECURSIVE SeqsUpTo(_, _)
SeqsUpTo(S, n) ==
    IF n = 0 THEN {<<>>}
    ELSE SeqsUpTo(S, n - 1)
         \cup {Append(l, x) : l \in {m \in SeqsUpTo(S, n - 1) : Len(m) = n - 1}, x \in S}

IdLists == SeqsUpTo(Uids, MaxIds)

\* The esearchresult object: a key is present when its value is given.
SearchData(webenv, idlist) ==
    Obj(<<"esearchresult">>,
        <<Obj((IF webenv = Undefined THEN <<>> ELSE <<"webenv">>)
              \o (IF idlist = Undefined THEN <<>> ELSE <<"idlist">>),
              (IF webenv = Undefined THEN <<>> ELSE <<webenv>>)
              \o (IF idlist = Undefined THEN <<>> ELSE <<idlist>>))>>)

StrArray(l) == Arr([i \in 1 .. Len(l) |-> Str(l[i])])

\* A body that response.json() rejects (not JSON), and the JSON bodies: no
\* esearchresult; webenv missing, empty or given; idlist missing or given.
BadJson == [kind |-> "text"]

JsonBody(data) == [kind |-> "json", data |-> data]

SearchBodies ==
    {BadJson, JsonBody(EmptyObject)}
    \cup {JsonBody(SearchData(w, l)) :
            w \in {Undefined, Str(<<>>)} \cup {Str(x) : x \in Webenvs},
            l \in {Undefined} \cup {StrArray(x) : x \in IdLists}}

\* The documents, as XMLParser.parse returns them: a journal article with a
\* date, a labelled abstract in a book chapter, and the tree of a text that
\* is no PubMed document.
DocArticle ==
    Obj(<<"PubmedArticleSet">>, <<
      Obj(<<"PubmedArticle">>, <<
        Obj(<<"MedlineCitation">>, <<
          Obj(<<"Article">>, <<
            Obj(<<"ArticleTitle", "ArticleDate", "Abstract">>, <<
              Str(<<"A">>),
              Obj(<<"Year", "Month">>, <<Num(2024), Num(5)>>),
              Obj(<<"AbstractText", "CopyrightInformation">>,
                  <<Str(<<"x">>), Str(<<"c">>)>>) >>) >>) >>) >>) >>)

DocBook ==
    Obj(<<"PubmedArticleSet">>, <<
      Obj(<<"PubmedBookArticle">>, <<
        Obj(<<"BookDocument">>, <<
          Obj(<<"ArticleTitle", "Abstract">>, <<
            Str(<<"B">>),
            Obj(<<"AbstractText">>, <<
              Arr(<<Obj(<<"#text", "@Label">>, <<Str(<<"m">>), Str(<<"L">>)>>)>>)
            >>) >>) >>) >>) >>)

DocNone == EmptyObject

Docs == {DocArticle, DocBook, DocNone}

XmlBody(tree) == [kind |-> "xml", tree |-> tree]

\* The characters spliced into a URL after the literal piece `piece`, up to
\* the next literal piece.
Literals ==
    {baseUrlEsearch, baseUrlEfetch, "db=pubmed&term=", "&retmode=json&retmax=",
     "&usehistory=y", "&email=", "&api_key=", "db=pubmed&retmode=xml&id=",
     "&webenv="}

RECURSIVE TakeSpliced(_)
TakeSpliced(pieces) ==
    IF pieces = <<>> \/ pieces[1] \in Literals THEN <<>>
    ELSE <<pieces[1]>> \o TakeSpliced(Tail(pieces))

UrlParam(url, piece) ==
    IF \E i \in 1 .. Len(url) : url[i] = piece
    THEN TakeSpliced(SubSeq(url, 1 + (CHOOSE i \in 1 .. Len(url) : url[i] = piece),
                            Len(url)))
    ELSE <<>>

IsSearchUrl(url) == url # <<>> /\ url[1] = baseUrlEsearch
IsFetchUrl(url) == url # <<>> /\ url[1] = baseUrlEfetch

\* The bodies the network may answer a URL with: efetch serves the document
\* it holds for the identifier asked for.
Bodies(url) ==
    IF IsSearchUrl(url) THEN SearchBodies
    ELSE IF IsFetchUrl(url)
         THEN LET id == UrlParam(url, "db=pubmed&retmode=xml&id=")
              IN {XmlBody(IF id \in Uids THEN corpus[id] ELSE DocNone)}
         ELSE {NoBody}


(***************************************************************************)
(* One activation of RetryableHttpClient.fetch.  pc is its position:       *)
(*   idle            no activation in this slot                            *)
(*   attempt         awaiting the network (await fetch(url))               *)
(*   sleepRateLimit  suspended in handleRateLimit's sleep                  *)
(*   sleepRetry      suspended in handleRetry's sleep                      *)
(*   returned, threw the activation has ended                              *)
(* retry and currentSleepTime are the locals of fetch.  attempts, outcomes,*)
(* sleeps and logs record what the activation did: the calls of the global *)
(* fetch, what each ended in, the sleep(ms) calls and the console lines.   *)
(***************************************************************************)
IdleCall ==
    [pc |-> "idle", owner |-> 0, url |-> DirectUrl, context |-> <<>>,
     retry |-> 0, currentSleepTime |-> 0,
     attempts |-> 0, outcomes |-> <<>>, sleeps |-> <<>>, logs |-> <<>>,
     sleeping |-> 0, response |-> NoValue, error |-> NoValue]

\* A mutated start of fetch: the retry state is taken over from the slot's
\* previous activation (as if it lived in fields of the client).
NewCallKeepsState(c, owner, url, context) ==
    [IdleCall EXCEPT !.pc = "attempt", !.owner = owner, !.url = url,
                     !.context = context,
                     !.retry = calls[c].retry,
                     !.currentSleepTime =
                         IF calls[c].currentSleepTime = 0 THEN initialSleepTime
                         ELSE calls[c].currentSleepTime,
                     !.attempts = 1]

\* fetch, lines 32-37: let retry = 0; let currentSleepTime = initialSleepTime;
\* the loop is entered when retry <= maxRetry and the first attempt is issued.
NewCall(c, owner, url, context) ==
    [IdleCall EXCEPT !.pc = "attempt", !.owner = owner, !.url = url,
                     !.context = context, !.retry = 0,
                     !.currentSleepTime = initialSleepTime,
                     !.attempts = 1]

\* fetch with the loop never entered: throw createMaxRetriesError.
NewCallNoBudget(c, owner, url, context) ==
    [IdleCall EXCEPT !.pc = "threw", !.owner = owner, !.url = url,
                     !.context = context, !.retry = 0,
                     !.currentSleepTime = initialSleepTime,
                     !.error = createMaxRetriesError(context)]

\* The activation record a call of fetch(url, context) starts with.
StartedCall(c, owner, url, context) ==
    IF 0 <= maxRetry THEN NewCall(c, owner, url, context)
    ELSE NewCallNoBudget(c, owner, url, context)

\* A direct caller invokes client.fetch(url, context) in a free slot.  A slot
\* whose activation has ended is free again: its record is garbage.
SlotFree(c) == calls[c].pc \in {"idle", "returned", "threw"}

CallFetch(c, context) ==
    /\ SlotFree(c)
    /\ calls' = [calls EXCEPT ![c] = StartedCall(c, 0, DirectUrl, context)]
    /\ UNCHANGED <<fixed, ops, extracted>>

\* What the network answered an attempt with, as the activation's record of
\* it: a response's status, or the fault thrown (status -1).
Answered(call, status, fault) ==
    [call EXCEPT !.outcomes = Append(@, [status |-> status, fault |-> fault])]

\* A mutated catch branch: the budget is not looked at, every error that is
\* not fatal by its kind goes to handleRetry.
CaughtRetriesPastBudget(call, error, k) ==
    IF error.cls # "HttpError" /\ ~MessageIncludesRateLimitExceeded(error)
    THEN [call EXCEPT !.pc = "sleepRetry",
                      !.logs = Append(@, logNetworkError(call.retry, call.context)),
                      !.sleeps = Append(@, [ms |-> call.currentSleepTime,
                                            retry |-> call.retry,
                                            by |-> "handleRetry"]),
                      !.sleeping = sleepDuration(call.currentSleepTime, k)]
    ELSE [call EXCEPT !.pc = "threw", !.error = error]

\* The catch branch of fetch, lines 44-51: rethrow, or handleRetry (a
\* console line and a sleep).
Caught(call, error, k) ==
    IF shouldRetryError(error, call.retry)
    THEN [call EXCEPT !.pc = "sleepRetry",
                      !.logs = Append(@, logNetworkError(call.retry, call.context)),
                      !.sleeps = Append(@, [ms |-> call.currentSleepTime,
                                            retry |-> call.retry,
                                            by |-> "handleRetry"]),
                      !.sleeping = sleepDuration(call.currentSleepTime, k)]
    ELSE [call EXCEPT !.pc = "threw", !.error = error]

\* A mutated handleRateLimit: the exhausted-budget check is missing.
handleRateLimitNoCheck(call, k) ==
    [call EXCEPT !.pc = "sleepRateLimit",
                 !.logs = Append(@, logRateLimit(call.retry,
                                                 call.currentSleepTime,
                                                 call.context)),
                 !.sleeps = Append(@, [ms |-> call.currentSleepTime,
                                       retry |-> call.retry,
                                       by |-> "handleRateLimit"]),
                 !.sleeping = sleepDuration(call.currentSleepTime, k)]

\* handleResponse on a 429, up to the suspension in handleRateLimit: with the
\* budget exhausted the RateLimit error is thrown into fetch's catch branch.
handleRateLimit(call, k) ==
    IF call.retry >= maxRetry
    THEN Caught(call, createRateLimitError(call.context), k)
    ELSE [call EXCEPT !.pc = "sleepRateLimit",
                      !.logs = Append(@, logRateLimit(call.retry,
                                                      call.currentSleepTime,
                                                      call.context)),
                      !.sleeps = Append(@, [ms |-> call.currentSleepTime,
                                            retry |-> call.retry,
                                            by |-> "handleRateLimit"]),
                      !.sleeping = sleepDuration(call.currentSleepTime, k)]

\* A mutated handleResponse: a line is printed for a response that is ok.
handleResponseLogsSuccess(call, response, k) ==
    IF response.status = 429 THEN handleRateLimit(call, k)
    ELSE IF ~ResponseOk(response)
         THEN Caught(call, createHttpError(response, call.context), k)
         ELSE [call EXCEPT !.pc = "returned", !.response = response,
                           !.logs = Append(@, logNetworkError(call.retry,
                                                              call.context))]

\* handleResponse: 429, then !response.ok, then the response itself.
handleResponse(call, response, k) ==
    IF response.status = 429 THEN handleRateLimit(call, k)
    ELSE IF ~ResponseOk(response)
         THEN Caught(call, createHttpError(response, call.context), k)
         ELSE [call EXCEPT !.pc = "returned", !.response = response]

\* The network answers the attempt in flight with a response; k is the draw
\* of Math.random() in the sleep that may follow.
Respond(c, status, k) ==
    /\ calls[c].pc = "attempt"
    /\ \E body \in Bodies(calls[c].url) :
         calls' = [calls EXCEPT ![c] =
                      handleResponse(Answered(calls[c], status, ""),
                                     MkResponse(status, body), k)]
    /\ UNCHANGED <<fixed, ops, extracted>>

\* The attempt in flight ends in a transport-level fault; k is the draw of
\* Math.random() in the sleep that may follow.
Fault(c, fault, k) ==
    /\ calls[c].pc = "attempt"
    /\ calls' = [calls EXCEPT ![c] =
                    Caught(Answered(calls[c], -1, fault.text), fault, k)]
    /\ UNCHANGED <<fixed, ops, extracted>>

\* handleRateLimit's sleep ends: handleResponse throws RetryableError, which
\* fetch catches; shouldRetryError holds (the budget was checked before the
\* sleep) and handleRetry logs and sleeps again.
WakeRateLimit(c, k) ==
    /\ calls[c].pc = "sleepRateLimit"
    /\ calls' = [calls EXCEPT ![c] = Caught(calls[c], RetryableError, k)]
    /\ UNCHANGED <<fixed, ops, extracted>>

\* A mutated end of a retry round: the call starts over, its retry count
\* and delay as at the start.
AfterRetryStartsOver(call) ==
    [call EXCEPT !.pc = "attempt", !.sleeping = 0, !.retry = 0,
                 !.currentSleepTime = initialSleepTime, !.attempts = 1,
                 !.outcomes = <<>>, !.sleeps = <<>>, !.logs = <<>>]

\* A mutated end of a retry round: the delay is not doubled.
AfterRetryNoDoubling(call) ==
    IF call.retry + 1 <= maxRetry
    THEN [call EXCEPT !.pc = "attempt", !.sleeping = 0,
                      !.retry = @ + 1, !.attempts = @ + 1]
    ELSE [call EXCEPT !.pc = "threw", !.sleeping = 0,
                      !.retry = @ + 1,
                      !.error = createMaxRetriesError(call.context)]

\* fetch, lines 52-57 and the loop test: currentSleepTime *= 2; retry += 1;
\* then the next attempt, or createMaxRetriesError when the loop ends.
AfterRetry(call) ==
    IF call.retry + 1 <= maxRetry
    THEN [call EXCEPT !.pc = "attempt", !.sleeping = 0,
                      !.currentSleepTime = @ * 2,
                      !.retry = @ + 1, !.attempts = @ + 1]
    ELSE [call EXCEPT !.pc = "threw", !.sleeping = 0,
                      !.currentSleepTime = @ * 2,
                      !.retry = @ + 1,
                      !.error = createMaxRetriesError(call.context)]

\* A mutated wake-up: the retry state is shared by every activation of the
\* client, so one call's retry advances the others'.
RetriedShared(c) ==
    [d \in CallIds |->
        IF d = c THEN AfterRetry(calls[c])
        ELSE IF calls[d].pc \in {"attempt", "sleepRateLimit", "sleepRetry"}
             THEN [calls[d] EXCEPT !.retry = @ + 1, !.currentSleepTime = @ * 2]
             ELSE calls[d]]

\* The activations after call c's handleRetry sleep has ended.
Retried(c) == [calls EXCEPT ![c] = AfterRetry(calls[c])]

\* handleRetry's sleep ends.
WakeRetry(c) ==
    /\ calls[c].pc = "sleepRetry"
    /\ calls' = Retried(c)
    /\ UNCHANGED <<fixed, ops, extracted>>

(***************************************************************************)
(* PubMedAPIWrapper.  An option is <<>> when not given and <<v>> when      *)
(* given.                                                                  *)
(***************************************************************************)
DefaultTopKResults == 5
DefaultMaxQueryLength == 300
DefaultDocContentCharsMax == 10000
DefaultMaxRetry == 5
DefaultSleepTime == 200

DefaultEmail ==
    <<"y", "o", "u", "r", "_", "e", "m", "a", "i", "l", "@",
      "e", "x", "a", "m", "p", "l", "e", ".", "c", "o", "m">>

OrDefault(option, default) == IF option = <<>> THEN default ELSE option[1]

\* The constructor: the wrapper's own fields (the environment variables
\* PUBMED_EMAIL and PUBMED_API_KEY are taken as unset).
NewWrapper(options) ==
    [topKResults |-> OrDefault(options.topKResults, DefaultTopKResults),
     maxQueryLength |-> OrDefault(options.maxQueryLength, DefaultMaxQueryLength),
     docContentCharsMax |->
         OrDefault(options.docContentCharsMax, DefaultDocContentCharsMax),
     email |-> OrDefault(options.email, DefaultEmail),
     apiKey |-> OrDefault(options.apiKey, <<>>)]

\* The constructor: the options of the RetryableHttpClient it builds.
ClientMaxRetry(options) == OrDefault(options.maxRetry, DefaultMaxRetry)
ClientSleepTime(options) == OrDefault(options.sleepTime, DefaultSleepTime)

NoOptions ==
    [topKResults |-> <<>>, maxQueryLength |-> <<>>, docContentCharsMax |-> <<>>,
     maxRetry |-> <<>>, sleepTime |-> <<>>, email |-> <<>>, apiKey |-> <<>>]

OpIds == {1, 2}

OpKinds == {"lazyLoad", "lazyLoadDocs", "load", "loadDocs", "run"}

\* load and loadDocs drive the generator themselves (for await), and run
\* awaits load; the lazy forms are driven by their consumer.
Eager(kind) == kind \in {"load", "loadDocs", "run"}

\* The query handed to lazyLoad: run cuts its input to maxQueryLength
\* (line 108), the other operations pass theirs on.
QueryUsed(kind, query) ==
    IF kind = "run" THEN Substring0(query, wrapper.maxQueryLength) ELSE query

\* lazyLoadDocs, and loadDocs over it, pass each record through
\* dictToDocument.
YieldsDocuments(kind) == kind \in {"lazyLoadDocs", "loadDocs"}

(***************************************************************************)
(* One retrieval operation.  pc is the position of its lazyLoad generator: *)
(*   none     no operation in this slot                                    *)
(*   created  the generator object exists, its body has not started        *)
(*   search   awaiting httpClient.fetch(searchUrl, "search request")       *)
(*   fetch    awaiting retrieveArticle for identifier number idx           *)
(*   yielded  suspended at the yield of identifier number idx              *)
(*   done, threw, closed  the generator has ended (closed: by return())    *)
(* requested counts the next() calls the generator received, out is what   *)
(* the consumer received, issued the httpClient.fetch calls made, input    *)
(* the query the operation was called with, found the data of the search   *)
(* response it parsed.                                                     *)
(***************************************************************************)
IdleOp ==
    [kind |-> "none", pc |-> "none", query |-> <<>>, webenv |-> <<>>,
     idList |-> <<>>, idx |-> 0, call |-> 0, requested |-> 0,
     out |-> <<>>, value |-> NoValue, error |-> NoValue, issued |-> <<>>,
     input |-> <<>>, found |-> NoValue]

NewOp(kind, query) ==
    [IdleOp EXCEPT !.kind = kind, !.pc = "created", !.input = query,
                   !.query = QueryUsed(kind, query)]

OpEnded(o) == ops[o].pc \in {"none", "done", "threw", "closed"}

FreeSlots(cs) == {c \in CallIds : cs[c].pc = "idle"}

MinOf(S) == CHOOSE x \in S : \A y \in S : x <= y

\* httpClient.fetch(url, context) for each request in turn, each activation
\* in the free slot of least number.
RECURSIVE StartCalls(_, _, _)
StartCalls(cs, o, requests) ==
    IF requests = <<>> \/ FreeSlots(cs) = {} THEN cs
    ELSE LET c == MinOf(FreeSlots(cs))
         IN StartCalls([cs EXCEPT ![c] = StartedCall(c, o, requests[1].url,
                                                     requests[1].context)],
                       o, Tail(requests))

\* lazyLoad, lines 144-145.
SearchRequest(op) ==
    [url |-> buildSearchUrl(wrapper.email, wrapper.apiKey, op.query,
                            wrapper.topKResults),
     context |-> << <<"search request">> >>]

\* A mutated retrieveArticle: the token is read from a place all
\* operations of the wrapper write to (the last operation's search wins).
FetchRequestSharedToken(op, i) ==
    [url |-> buildFetchUrl(wrapper.email, wrapper.apiKey, op.idList[i],
                           IF ops[2].webenv # <<>> THEN ops[2].webenv
                           ELSE op.webenv),
     context |-> << <<"article ">> \o op.idList[i] >>]

\* retrieveArticle, lines 222-223, for identifier number i of the list.
FetchRequest(op, i) ==
    [url |-> buildFetchUrl(wrapper.email, wrapper.apiKey, op.idList[i], op.webenv),
     context |-> << <<"article ">> \o op.idList[i] >>]

\* A step's result: the operation's record and the activations.
Both(op, cs) == [op |-> op, calls |-> cs]

\* A mutated start of lazyLoad: the search data an operation of the wrapper
\* obtained for the same query is used again, no search call is made.
BeginSearchCached(o, op, cs) ==
    IF \E p \in OpIds : /\ ops[p].found # NoValue
                        /\ ops[p].query = op.query
                        /\ ops[p].webenv # <<>>
                        /\ ops[p].idList # <<>>
    THEN LET p == CHOOSE p \in OpIds : /\ ops[p].found # NoValue
                                       /\ ops[p].query = op.query
                                       /\ ops[p].webenv # <<>>
                                       /\ ops[p].idList # <<>>
         IN Both([op EXCEPT !.pc = "fetch", !.idx = 1,
                            !.found = ops[p].found, !.webenv = ops[p].webenv,
                            !.idList = ops[p].idList,
                            !.call = MinOf(FreeSlots(cs)),
                            !.issued = Append(@, FetchRequest(
                                [op EXCEPT !.webenv = ops[p].webenv,
                                           !.idList = ops[p].idList], 1))],
                 StartCalls(cs, o, <<FetchRequest(
                                [op EXCEPT !.webenv = ops[p].webenv,
                                           !.idList = ops[p].idList], 1)>>))
    ELSE Both([op EXCEPT !.pc = "search", !.call = MinOf(FreeSlots(cs)),
                         !.issued = Append(@, SearchRequest(op))],
              StartCalls(cs, o, <<SearchRequest(op)>>))

\* lazyLoad, lines 144-145: the body of the generator starts.
BeginSearch(o, op, cs) ==
    Both([op EXCEPT !.pc = "search", !.call = MinOf(FreeSlots(cs)),
                    !.issued = Append(@, SearchRequest(op))],
         StartCalls(cs, o, <<SearchRequest(op)>>))

\* A mutated loop body: the documents of all remaining identifiers are
\* requested at once.
FetchBatchAll(op, idx) == [j \in 1 .. (Len(op.idList) - idx + 1) |-> idx + j - 1]

\* The identifiers whose retrieveArticle is called when the for loop reaches
\* identifier number idx: that one.
FetchBatch(op, idx) == <<idx>>

\* A string value returned to the caller.
StringValue(s) == [kind |-> "string", s |-> s]

PublishedLabel ==
    <<"P", "u", "b", "l", "i", "s", "h", "e", "d", ":", " ">>

TitleLabel ==
    <<"\n", "T", "i", "t", "l", "e", ":", " ">>

CopyrightLabel ==
    <<"\n", "C", "o", "p", "y", "r", "i", "g", "h", "t", " ", "I", "n",
      "f", "o", "r", "m", "a", "t", "i", "o", "n", ":", " ">>

SummaryLabel ==
    <<"\n", "S", "u", "m", "m", "a", "r", "y", ":", "\n">>

\* formatArticle
formatArticle(article) ==
    PublishedLabel \o article.Published \o TitleLabel \o article.Title
    \o CopyrightLabel \o StringOf(article.Copyright)
    \o SummaryLabel \o article.Summary

NoGoodResult == <<"No good PubMed Result was found">>

\* A mutated run: each article is cut to docContentCharsMax, then joined.
RunResultCutPerArticle(results) ==
    IF Len(results) = 0 THEN NoGoodResult
    ELSE Join([i \in 1 .. Len(results) |->
                 Substring0(formatArticle(results[i]), wrapper.docContentCharsMax)],
              <<"\n", "\n">>)

\* A mutated run: the empty array is formatted like any other.
RunResultEmptyUnchecked(results) ==
    Substring0(Join([i \in 1 .. Len(results) |-> formatArticle(results[i])],
                    <<"\n", "\n">>),
               wrapper.docContentCharsMax)

\* run, lines 110-117, on the array load returned.
RunResult(results) ==
    IF Len(results) = 0 THEN NoGoodResult
    ELSE Substring0(Join([i \in 1 .. Len(results) |-> formatArticle(results[i])],
                         <<"\n", "\n">>),
                    wrapper.docContentCharsMax)

\* String(n) for an integer.
IntText(n) == IF n < 0 THEN <<"-">> \o Digits(0 - n) ELSE Digits(n)

\* error.message, in the pieces it was put together from.
ErrorMessage(error) ==
    IF error.cls = "HttpError"
    THEN <<error.text>> \o error.label \o <<": ">> \o IntText(error.status)
         \o <<" ", error.statusText>>
    ELSE IF error.text \in {"Rate limit exceeded", "Failed to fetch"}
    THEN <<error.text>> \o error.label \o <<" after ">> \o IntText(error.retries)
         \o <<" retries">>
    ELSE <<error.text>>

\* String(error): Error.prototype.toString.
ErrorString(error) == <<error.cls, ": ">> \o ErrorMessage(error)

\* run, line 119.
RunCaught(error) == <<"PubMed exception: ">> \o ErrorString(error)

\* The return value of load and of loadDocs, and of run over load's.
Returned(op) ==
    IF op.kind = "run" THEN StringValue(RunResult(op.out))
    ELSE IF Eager(op.kind) THEN [kind |-> "array", items |-> op.out]
    ELSE NoValue

\* lazyLoad, lines 156-158: the for loop arrives at identifier number idx.
LoopAt(o, op, cs, idx) ==
    IF idx > Len(op.idList)
    THEN Both([op EXCEPT !.pc = "done", !.idx = idx, !.call = 0,
                         !.value = Returned(op)], cs)
    ELSE LET requests == [j \in 1 .. Len(FetchBatch(op, idx)) |->
                            FetchRequest(op, FetchBatch(op, idx)[j])]
         IN Both([op EXCEPT !.pc = "fetch", !.idx = idx,
                            !.call = MinOf(FreeSlots(cs)),
                            !.issued = @ \o requests],
                 StartCalls(cs, o, requests))

Apply(o, both) ==
    /\ ops' = [ops EXCEPT ![o] = both.op]
    /\ calls' = both.calls
    /\ UNCHANGED <<fixed, extracted>>

\* A mutated call: the lazy forms start their search when they are created.
InvokeSearchingAtOnce(o, kind, query) ==
    /\ OpEnded(o)
    /\ FreeSlots(calls) # {}
    /\ IF Eager(kind)
       THEN Apply(o, BeginSearch(o, [NewOp(kind, query) EXCEPT !.requested = 1],
                                 calls))
       ELSE Apply(o, BeginSearch(o, NewOp(kind, query), calls))

\* lazyLoad(query), lazyLoadDocs(query), load(query), loadDocs(query) or
\* run(query) is called.  load, loadDocs and run go on to their first
\* await: the generator's first next().
Invoke(o, kind, query) ==
    /\ OpEnded(o)
    /\ FreeSlots(calls) # {}
    /\ IF Eager(kind)
       THEN Apply(o, BeginSearch(o, [NewOp(kind, query) EXCEPT !.requested = 1],
                                 calls))
       ELSE Apply(o, Both(NewOp(kind, query), calls))

\* The consumer of a lazy form asks for the next element.
Iterate(o) ==
    /\ ~Eager(ops[o].kind)
    /\ ops[o].pc \in {"created", "yielded"}
    /\ FreeSlots(calls) # {}
    /\ LET op == [ops[o] EXCEPT !.requested = @ + 1]
       IN IF ops[o].pc = "created"
          THEN Apply(o, BeginSearch(o, op, calls))
          ELSE Apply(o, LoopAt(o, op, calls, op.idx + 1))

\* The consumer of a lazy form stops: return() on the suspended generator.
Stop(o) ==
    /\ ~Eager(ops[o].kind)
    /\ ops[o].pc \in {"created", "yielded"}
    /\ Apply(o, Both([ops[o] EXCEPT !.pc = "closed", !.call = 0], calls))

AwaitedCallIs(o, pcs, state) ==
    /\ ops[o].pc \in pcs
    /\ ops[o].call \in CallIds
    /\ calls[ops[o].call].owner = o
    /\ calls[ops[o].call].pc = state

Release(cs, c) == [cs EXCEPT ![c] = IdleCall]

\* A mutated catch of run: the exception leaves run as it leaves load.
ThrowUncaught(op, error) ==
    [op EXCEPT !.pc = "threw", !.call = 0, !.error = error]

\* A mutated propagation: load and loadDocs swallow the exception and return
\* the elements received so far.
ThrowReturnsPartial(op, error) ==
    IF op.kind = "run"
    THEN [op EXCEPT !.pc = "done", !.call = 0, !.error = error,
                    !.value = StringValue(RunCaught(error))]
    ELSE IF Eager(op.kind)
    THEN [op EXCEPT !.pc = "done", !.call = 0,
                    !.value = [kind |-> "array", items |-> op.out]]
    ELSE [op EXCEPT !.pc = "threw", !.call = 0, !.error = error]

\* An exception leaves the generator: load, loadDocs and the lazy forms
\* throw it on, run catches it (lines 118-120) and returns a string.
Throw(op, error) ==
    IF op.kind = "run"
    THEN [op EXCEPT !.pc = "done", !.call = 0, !.error = error,
                    !.value = StringValue(RunCaught(error))]
    ELSE [op EXCEPT !.pc = "threw", !.call = 0, !.error = error]

SyntaxError == MkError("SyntaxError", "Unexpected token", <<>>, -1, "", -1)

InvalidResponse ==
    MkError("Error", "Invalid response from PubMed API", <<>>, -1, "", -1)

\* A mutated check of the search data: a missing webenv passes.
InvalidSearchTokenUnchecked(data) == IsFalsy(Get(data, "esearchresult"))

\* lazyLoad, line 149: !data.esearchresult || !data.esearchresult.webenv
InvalidSearch(data) ==
    \/ IsFalsy(Get(data, "esearchresult"))
    \/ IsFalsy(Get(Get(data, "esearchresult"), "webenv"))

\* lazyLoad, lines 147-156: the search call has returned.
SearchReturned(o) ==
    /\ AwaitedCallIs(o, {"search"}, "returned")
    /\ LET c == ops[o].call
           body == calls[c].response.body
           cs == Release(calls, c)
           data == body.data
           esearchresult == Get(data, "esearchresult")
           webenv == Get(esearchresult, "webenv")
           idlist == Get(esearchresult, "idlist")
       IN IF body.kind # "json"
          THEN Apply(o, Both(Throw(ops[o], SyntaxError), cs))
          ELSE IF InvalidSearch(data)
          THEN Apply(o, Both(Throw([ops[o] EXCEPT !.found = data],
                                   InvalidResponse), cs))
          ELSE Apply(o, LoopAt(o,
                   [ops[o] EXCEPT
                      !.found = data,
                      !.webenv = StringOf(webenv),
                      !.idList = IF IsFalsy(idlist) THEN <<>>
                                 ELSE [i \in 1 .. Len(idlist.a) |->
                                         StringOf(idlist.a[i])]],
                   cs, 1))

\* A mutated results.push: the newest record goes first.
PushFront(out, item) == <<item>> \o out

\* What the consumer holds after the next element: the elements in the order
\* received (results.push in load).
Push(out, item) == Append(out, item)

\* A mutated yield: while the consumer holds the element, the document of the
\* next identifier is already requested.
SuspendPrefetching(o, op, cs) ==
    Both([op EXCEPT !.pc = "yielded",
                    !.issued = IF op.idx < Len(op.idList)
                               THEN Append(@, FetchRequest(op, op.idx + 1)) ELSE @],
         IF op.idx < Len(op.idList)
         THEN StartCalls(cs, o, <<FetchRequest(op, op.idx + 1)>>) ELSE cs)

\* The yield of lazyLoad (and of lazyLoadDocs): the generator is suspended
\* until the next next().
Suspend(o, op, cs) == Both([op EXCEPT !.pc = "yielded"], cs)

\* retrieveArticle, lines 225-228, and the yield: the fetch call for
\* identifier number idx has returned.
FetchReturned(o) ==
    /\ AwaitedCallIs(o, {"fetch"}, "returned")
    /\ LET c == ops[o].call
           xmlResponse == calls[c].response.body.tree
           metadata == extractArticleMetadata(ops[o].idList[ops[o].idx], xmlResponse)
           item == IF YieldsDocuments(ops[o].kind) THEN toDocument(metadata)
                   ELSE metadata
           op == [ops[o] EXCEPT !.out = Push(@, item), !.call = 0]
           cs == Release(calls, c)
       IN IF Eager(ops[o].kind)
          THEN Apply(o, LoopAt(o, [op EXCEPT !.requested = @ + 1], cs, op.idx + 1))
          ELSE Apply(o, Suspend(o, op, cs))

\* The awaited call has thrown: the generator, and load with it, throws.
CallThrew(o) ==
    /\ AwaitedCallIs(o, {"search", "fetch"}, "threw")
    /\ Apply(o, Both(Throw(ops[o], calls[ops[o].call].error),
                     Release(calls, ops[o].call)))

(***************************************************************************)
(* The transport on its own: direct callers of one client.                 *)
(***************************************************************************)
Init ==
    /\ maxRetry \in MaxRetryOptions
    /\ initialSleepTime \in SleepTimeOptions
    /\ calls = [c \in CallIds |-> IdleCall]
    /\ wrapper = NewWrapper(NoOptions)
    /\ corpus = [u \in Uids |-> DocNone]
    /\ ops = [o \in OpIds |-> IdleOp]
    /\ extracted = NoValue

Next ==
    \/ \E context \in Contexts : CallFetch(1, context)
    \/ \E status \in Statuses, k \in RandomSteps : Respond(1, status, k)
    \/ \E fault \in Faults, k \in RandomSteps : Fault(1, fault, k)
    \/ \E k \in RandomSteps : WakeRateLimit(1, k)
    \/ WakeRetry(1)

Spec == Init /\ [][Next]_vars

(***************************************************************************)
(* One client used by two callers at once.  The retry state is the matter  *)
(* here, so each caller passes the same context, the network answers with  *)
(* one status of each class and Math.random() draws its middle value.      *)
(***************************************************************************)
ClientStatuses == {200, 429, 500}

NextClient ==
    \/ \E c \in CallIds : CallFetch(c, << <<"t", "e", "s", "t">> >>)
    \/ \E c \in CallIds, status \in ClientStatuses : Respond(c, status, JitterDen)
    \/ \E c \in CallIds, fault \in Faults : Fault(c, fault, JitterDen)
    \/ \E c \in CallIds : WakeRateLimit(c, JitterDen)
    \/ \E c \in CallIds : WakeRetry(c)

SpecClient == Init /\ [][NextClient]_vars

(***************************************************************************)
(* Retrieval: one wrapper, its client and the upstream service.  The       *)
(* network answers with one status of each class.                          *)
(***************************************************************************)
MaxRetryRetrieval == 1

Queries == {<<"a">>, <<"a", " ", "b", "c">>}

\* Two configurations: room for every identifier, query and content that
\* occur; and a wrapper asking for one result, with queries cut to 3
\* characters and content to 40.
RetrievalOptions ==
    {[NoOptions EXCEPT !.topKResults = <<MaxIds>>, !.maxRetry = <<m>>,
                       !.email = << <<"a", "@", "b">> >>] :
        m \in 0 .. MaxRetryRetrieval}
    \cup {[NoOptions EXCEPT !.topKResults = <<1>>, !.maxQueryLength = <<3>>,
                            !.docContentCharsMax = <<40>>, !.maxRetry = <<m>>,
                            !.email = << <<"a", "@", "b">> >>] :
             m \in 0 .. MaxRetryRetrieval}
    \cup {[NoOptions EXCEPT !.maxRetry = <<0>>, !.apiKey = << <<"k", "1">> >>]}

\* What efetch holds for the two identifiers: each kind of document under
\* each identifier.
Corpora ==
    {[u \in Uids |-> IF u = <<"1", "1">> THEN pair[1] ELSE pair[2]] :
        pair \in {<<DocArticle, DocBook>>, <<DocBook, DocNone>>,
                  <<DocNone, DocArticle>>}}

InitRetrieval ==
    \E options \in RetrievalOptions :
      /\ maxRetry = ClientMaxRetry(options)
      /\ initialSleepTime = ClientSleepTime(options)
      /\ wrapper = NewWrapper(options)
      /\ corpus \in Corpora
      /\ calls = [c \in CallIds |-> IdleCall]
      /\ ops = [o \in OpIds |-> IdleOp]
      /\ extracted = NoValue

NextRetrieval ==
    \/ \E kind \in OpKinds, query \in Queries : Invoke(1, kind, query)
    \/ Iterate(1)
    \/ Stop(1)
    \/ SearchReturned(1)
    \/ FetchReturned(1)
    \/ CallThrew(1)
    \/ \E c \in CallIds, status \in ClientStatuses : Respond(c, status, JitterDen)
    \/ \E c \in CallIds, fault \in Faults : Fault(c, fault, JitterDen)
    \/ \E c \in CallIds : WakeRateLimit(c, JitterDen)
    \/ \E c \in CallIds : WakeRetry(c)

SpecRetrieval == InitRetrieval /\ [][NextRetrieval]_vars

(***************************************************************************)
(* Two retrieval operations on one wrapper, interleaved at their awaits,   *)
(* both with the same query: a consumer of lazyLoad and a caller of load.  *)
(* Every call is answered 200; the failures left are those of the search   *)
(* response itself.                                                        *)
(***************************************************************************)
InterleavedKind(o) == IF o = 1 THEN "lazyLoad" ELSE "load"

InterleavedStatuses == {200}

InitInterleaved ==
    LET options == [NoOptions EXCEPT !.topKResults = <<MaxIds>>, !.maxRetry = <<0>>,
                                     !.email = << <<"a", "@", "b">> >>]
    IN /\ maxRetry = ClientMaxRetry(options)
       /\ initialSleepTime = ClientSleepTime(options)
       /\ wrapper = NewWrapper(options)
       /\ corpus = [u \in Uids |-> IF u = <<"1", "1">> THEN DocArticle ELSE DocBook]
       /\ calls = [c \in CallIds |-> IdleCall]
       /\ ops = [o \in OpIds |-> IdleOp]
       /\ extracted = NoValue

NextInterleaved ==
    \/ \E o \in OpIds : Invoke(o, InterleavedKind(o), <<"a">>)
    \/ \E o \in OpIds : Iterate(o)
    \/ \E o \in OpIds : Stop(o)
    \/ \E o \in OpIds : SearchReturned(o)
    \/ \E o \in OpIds : FetchReturned(o)
    \/ \E c \in CallIds, status \in InterleavedStatuses : Respond(c, status, JitterDen)

SpecInterleaved == InitInterleaved /\ [][NextInterleaved]_vars

(***************************************************************************)
(* One operation at a time whose network attempts and backoff sleeps all   *)
(* come to an end, whose awaits are resumed, and whose consumer, for the   *)
(* lazy forms, keeps asking for the next element or stops.  What the       *)
(* documents hold plays no part in it: efetch answers with empty trees.    *)
(***************************************************************************)
InitTermination ==
    \E m \in 0 .. MaxRetryRetrieval :
      LET options == [NoOptions EXCEPT !.topKResults = <<MaxIds>>,
                                       !.maxRetry = <<m>>,
                                       !.email = << <<"a", "@", "b">> >>]
      IN /\ maxRetry = ClientMaxRetry(options)
         /\ initialSleepTime = ClientSleepTime(options)
         /\ wrapper = NewWrapper(options)
         /\ corpus = [u \in Uids |-> DocNone]
         /\ calls = [c \in CallIds |-> IdleCall]
         /\ ops = [o \in OpIds |-> IdleOp]
         /\ extracted = NoValue

\* The attempt of call c in flight comes to an end: a response or a fault.
AttemptEnds(c) ==
    \/ \E status \in ClientStatuses : Respond(c, status, JitterDen)
    \/ \E fault \in Faults : Fault(c, fault, JitterDen)

\* A backoff sleep of call c comes to an end.
SleepEnds(c) == WakeRateLimit(c, JitterDen) \/ WakeRetry(c)

\* The operation is resumed after the call it awaits.
Resumed(o) == SearchReturned(o) \/ FetchReturned(o) \/ CallThrew(o)

\* The operations followed to their end: a lazy form, and the two that
\* consume it to the end themselves.
TerminationKinds == {"lazyLoad", "load", "run"}

NextTermination ==
    \/ \E kind \in TerminationKinds : Invoke(1, kind, <<"a">>)
    \/ Iterate(1)
    \/ Stop(1)
    \/ Resumed(1)
    \/ \E c \in CallIds : AttemptEnds(c)
    \/ \E c \in CallIds : SleepEnds(c)

\* A step of the operation's own progress.  The operation does one thing at
\* a time (it awaits one call, which is in one attempt or one sleep, or it
\* waits for its consumer), so that each of them comes to an end means
\* that progress, while possible, is made.
Progress ==
    \/ Iterate(1)
    \/ Resumed(1)
    \/ \E c \in CallIds : AttemptEnds(c)
    \/ \E c \in CallIds : SleepEnds(c)

Fairness == WF_vars(Progress)

SpecTermination == InitTermination /\ [][NextTermination]_vars /\ Fairness

(***************************************************************************)
(* The parser on its own: extractArticleMetadata and toDocument applied to *)
(* the trees XMLParser.parse can return for a document.                    *)
(***************************************************************************)
\* An object with the given <<key, value>> pairs, a key being absent when
\* its value is undefined.
Fields(pairs) ==
    LET kept == SelectSeq(pairs, LAMBDA pair : pair[2] # Undefined)
    IN Obj([i \in 1 .. Len(kept) |-> kept[i][1]],
           [i \in 1 .. Len(kept) |-> kept[i][2]])

\* ArticleTitle: none, text, an empty tag, a number, text with markup in it.
TitleValues ==
    {Undefined, Str(<<"T">>), Str(<<>>), Num(7),
     Obj(<<"#text", "i">>, <<Str(<<"a">>), Str(<<"b">>)>>)}

\* ArticleDate: none, an empty tag, every subset of Year, Month and Day with
\* one- and two-digit months and days, and a month given by name.
DateValues ==
    {Undefined, Str(<<>>),
     Obj(<<"Year", "Month">>, <<Num(2024), Str(<<"J", "a", "n">>)>>)}
    \cup {Fields(<< <<"Year", year>>, <<"Month", month>>, <<"Day", day>> >>) :
            year \in {Undefined, Num(2024)},
            month \in {Undefined, Num(5), Num(12)},
            day \in {Undefined, Num(7), Num(15)}}

\* A section of a structured abstract.
Section(label, text) == Fields(<< <<"#text", text>>, <<"@Label", label>> >>)

\* AbstractText: none; text, an empty tag, numbers; sequences of sections
\* (all labelled, some without label or text, none labelled, plain texts,
\* empty); one labelled section; records with and without string values.
AbstractTextValues ==
    {Undefined, Str(<<"x">>), Str(<<>>), Num(0), Num(7),
     Arr(<<Section(Str(<<"L">>), Str(<<"m">>)), Section(Str(<<"R">>), Num(3))>>),
     Arr(<<Section(Str(<<"L">>), Str(<<"m">>)), Section(Undefined, Str(<<"u">>)),
           Section(Str(<<"K">>), Undefined), Section(Str(<<"R">>), Str(<<"n">>))>>),
     Arr(<<Section(Str(<<"K">>), Undefined), Section(Undefined, Str(<<"u">>))>>),
     Arr(<<Str(<<"p">>), Str(<<"q">>)>>),
     Arr(<<>>),
     Section(Str(<<"L">>), Str(<<"m">>)),
     Obj(<<"a", "number", "boolean", "nested", "b">>,
         <<Str(<<"p">>), Num(123), Bool(TRUE),
           Obj(<<"obj">>, <<Str(<<"v">>)>>), Str(<<"q">>)>>),
     Obj(<<"number", "boolean", "nested">>,
         <<Num(123), Bool(TRUE), Obj(<<"obj">>, <<Str(<<"v">>)>>)>>)}

\* CopyrightInformation: none, text, a number.
CopyrightValues == {Undefined, Str(<<"c">>), Num(2024)}

\* Abstract: none, an empty tag, or an element with or without AbstractText
\* and CopyrightInformation.
AbstractValues ==
    {Undefined, Str(<<>>)}
    \cup {Fields(<< <<"AbstractText", text>>, <<"CopyrightInformation", copyright>> >>) :
            text \in AbstractTextValues, copyright \in CopyrightValues}

ArticleBodies ==
    {Fields(<< <<"ArticleTitle", title>>, <<"ArticleDate", date>>,
               <<"Abstract", abstract>> >>) :
        title \in TitleValues, date \in DateValues, abstract \in AbstractValues}

\* The bodies of book chapters.
BookBodies ==
    {Fields(<< <<"ArticleTitle", title>>, <<"ArticleDate", date>>,
               <<"Abstract", abstract>> >>) :
        title \in TitleValues,
        date \in {Undefined,
                  Obj(<<"Year", "Month", "Day">>, <<Num(2024), Num(5), Num(7)>>)},
        abstract \in {Undefined,
                      Obj(<<"AbstractText">>, <<Str(<<"x">>)>>)}}

\* The PubmedArticle element holding an article body, and the
\* PubmedBookArticle element holding a book chapter.
ArticleElement(body) ==
    Obj(<<"MedlineCitation">>, <<Obj(<<"Article">>, <<body>>)>>)

BookElement(body) == Obj(<<"BookDocument">>, <<body>>)

ArticleSet(article, book) ==
    Obj(<<"PubmedArticleSet">>,
        <<Fields(<< <<"PubmedArticle", article>>, <<"PubmedBookArticle", book>> >>)>>)

\* Journal articles, book chapters, sets holding both or a PubmedArticle
\* without Article, an empty PubmedArticleSet, and the tree of a text that is
\* no PubMed document.
ParserDocs ==
    {ArticleSet(ArticleElement(body), Undefined) : body \in ArticleBodies}
    \cup {ArticleSet(Undefined, BookElement(body)) : body \in BookBodies}
    \cup {ArticleSet(article, BookElement(Obj(<<"ArticleTitle">>, <<Str(<<"B">>)>>))) :
            article \in {ArticleElement(Obj(<<"ArticleTitle">>, <<Str(<<"A">>)>>)),
                         Obj(<<"MedlineCitation">>, <<EmptyObject>>),
                         EmptyObject}}
    \cup {Obj(<<"PubmedArticleSet">>, <<Str(<<>>)>>), EmptyObject}

\* this.parser.extractArticleMetadata(uid, xmlResponse)
Extract(uid, xmlResponse) ==
    /\ extracted = NoValue
    /\ extracted' = [uid |-> uid, xmlResponse |-> xmlResponse,
                     metadata |-> extractArticleMetadata(uid, xmlResponse)]
    /\ UNCHANGED <<fixed, calls, ops>>

\* this.parser.toDocument(metadata) on the record extracted.
ToDocument ==
    /\ extracted # NoValue
    /\ "document" \notin DOMAIN extracted
    /\ extracted' = [uid |-> extracted.uid, xmlResponse |-> extracted.xmlResponse,
                     metadata |-> extracted.metadata,
                     document |-> toDocument(extracted.metadata)]
    /\ UNCHANGED <<fixed, calls, ops>>

InitParser ==
    /\ maxRetry = DefaultMaxRetry
    /\ initialSleepTime = DefaultSleepTime
    /\ wrapper = NewWrapper(NoOptions)
    /\ corpus \in {[u \in Uids |-> doc] : doc \in ParserDocs}
    /\ calls = [c \in CallIds |-> IdleCall]
    /\ ops = [o \in OpIds |-> IdleOp]
    /\ extracted = NoValue

NextParser ==
    \/ \E uid \in Uids : Extract(uid, corpus[uid])
    \/ ToDocument

SpecParser == InitParser /\ [][NextParser]_vars

(***************************************************************************)
(* Properties of the transport.                                            *)
(***************************************************************************)
RECURSIVE Pow2(_)
Pow2(n) == IF n <= 0 THEN 1 ELSE 2 * Pow2(n - 1)

\* What the network answered: a 429, another non-2xx status, a 2xx status, a
\* thrown fault.
Is429(a) == a.status = 429
IsFault(a) == a.status = -1
Is2xx(a) == a.status >= 200 /\ a.status <= 299
IsOtherNon2xx(a) == ~IsFault(a) /\ ~Is429(a) /\ ~Is2xx(a)
IsRetryTrigger(a) == Is429(a) \/ IsFault(a)

Started(c) == calls[c].pc # "idle"
Active(c) == calls[c].pc \in {"attempt", "sleepRateLimit", "sleepRetry"}
Ended(c) == calls[c].pc \in {"returned", "threw"}

AllAnswers(c, P(_)) == \A i \in 1 .. Len(calls[c].outcomes) : P(calls[c].outcomes[i])

\* C1: an attempt answered with a non-2xx status other than 429 is the call's
\* last attempt, whatever came before it: the call has failed with an
\* HttpError carrying that status, its status text and the context label, and
\* the global fetch was called exactly once per answer received (so exactly
\* once when that answer is the first).
C1_HttpErrorNeverRetried ==
    \A c \in CallIds :
      \A i \in 1 .. Len(calls[c].outcomes) :
        IsOtherNon2xx(calls[c].outcomes[i]) =>
          /\ i = Len(calls[c].outcomes)
          /\ calls[c].attempts = i
          /\ calls[c].pc = "threw"
          /\ calls[c].error.cls = "HttpError"
          /\ calls[c].error.status = calls[c].outcomes[i].status
          /\ calls[c].error.statusText = StatusText(calls[c].outcomes[i].status)
          /\ calls[c].error.label = formatContext(calls[c].context)

\* C1 witness: a 500 after a retried 429 and a retried fault, budget left.
C1_Witness ==
    \E c \in CallIds :
      /\ maxRetry = 2
      /\ Len(calls[c].outcomes) = 2
      /\ Is429(calls[c].outcomes[1])
      /\ calls[c].outcomes[2].status = 500
      /\ calls[c].pc = "threw"
      /\ calls[c].context = << <<"t", "e", "s", "t">> >>

\* C2: after a 429s and b faults in any order, a + b <= maxRetry, the call is
\* still going (it issues the attempt that the 2xx answers), and when the 2xx
\* arrives the call returns that response after a + b retries and a + b + 1
\* attempts.
C2_SharedBudgetThenSuccess ==
    \A c \in CallIds :
      LET o == calls[c].outcomes
          n == Len(o)
      IN /\ ( /\ Started(c)
              /\ \A i \in 1 .. n : IsRetryTrigger(o[i])
              /\ n <= maxRetry )
            => /\ Active(c)
               /\ calls[c].attempts \in {n, n + 1}
         /\ ( /\ n >= 1
              /\ \A i \in 1 .. n - 1 : IsRetryTrigger(o[i])
              /\ Is2xx(o[n])
              /\ n - 1 <= maxRetry )
            => /\ calls[c].pc = "returned"
               /\ calls[c].response.status = o[n].status
               /\ calls[c].retry = n - 1
               /\ calls[c].attempts = n

\* C3: while every answer is a 429, the call keeps going until maxRetry + 1
\* attempts are made; the 429 that arrives with the budget used up ends the
\* call with the RateLimit error, which names the context label and maxRetry.
IsRateLimitExceeded(c) ==
    /\ calls[c].pc = "threw"
    /\ calls[c].error =
         MkError("Error", "Rate limit exceeded", formatContext(calls[c].context),
                 -1, "", maxRetry)

C3_RateLimitExhaustion ==
    \A c \in CallIds :
      LET o == calls[c].outcomes
          n == Len(o)
      IN /\ (n >= 1 /\ AllAnswers(c, Is429)) =>
              /\ n <= maxRetry + 1
              /\ n <= maxRetry => (Active(c) /\ calls[c].attempts \in {n, n + 1})
              /\ n = maxRetry + 1 =>
                   (IsRateLimitExceeded(c) /\ calls[c].attempts = maxRetry + 1)
         /\ (n >= 1 /\ Is429(o[n]) /\ n - 1 >= maxRetry) =>
              (IsRateLimitExceeded(c) /\ calls[c].attempts = n)

\* C3 witness: maxRetry = 2, three 429s, the call has failed, with a context.
C3_Witness ==
    \E c \in CallIds :
      /\ maxRetry = 2
      /\ Len(calls[c].outcomes) = 3
      /\ AllAnswers(c, Is429)
      /\ calls[c].pc = "threw"
      /\ calls[c].context = << <<"t", "e", "s", "t">> >>
      /\ calls[c].error.label = <<" (", "t", "e", "s", "t", ")">>

\* C4: while every attempt ends in a fault, the call keeps going until
\* maxRetry + 1 attempts are made, and then fails with the last fault itself.
C4_FaultExhaustion ==
    \A c \in CallIds :
      LET o == calls[c].outcomes
          n == Len(o)
      IN (maxRetry >= 0 /\ n >= 1 /\ AllAnswers(c, IsFault)) =>
           /\ n <= maxRetry + 1
           /\ n <= maxRetry => (Active(c) /\ calls[c].attempts \in {n, n + 1})
           /\ n = maxRetry + 1 =>
                /\ calls[c].pc = "threw"
                /\ calls[c].attempts = maxRetry + 1
                /\ calls[c].error \in Faults
                /\ calls[c].error.text = o[n].fault

\* C5: with maxRetry >= 0 a started call has made between 1 and maxRetry + 1
\* attempts; with maxRetry = 0 it has made one attempt and has neither slept
\* nor printed a line nor counted a retry.
C5_AttemptBounds ==
    \A c \in CallIds :
      (Started(c) /\ maxRetry >= 0) =>
        /\ calls[c].attempts >= 1
        /\ calls[c].attempts <= maxRetry + 1
        /\ maxRetry = 0 =>
             /\ calls[c].attempts = 1
             /\ calls[c].retry = 0
             /\ calls[c].sleeps = <<>>
             /\ calls[c].logs = <<>>
             /\ calls[c].pc \in {"attempt", "returned", "threw"}

\* C5 witness: the bound is met (maxRetry + 1 attempts, maxRetry = 2), and a
\* call with maxRetry = 0 has ended on a fault.
C5_Witness ==
    \/ \E c \in CallIds : maxRetry = 2 /\ calls[c].attempts = 3
    \/ \E c \in CallIds :
         /\ maxRetry = 0
         /\ calls[c].pc = "threw"
         /\ Len(calls[c].outcomes) = 1
         /\ IsFault(calls[c].outcomes[1])

\* The answers that led to the retries of a call: all of them while the call
\* is going or asleep, all but the last one when the last one ended it.
\* C6: every sleep of the k-th retry round has the nominal delay
\* initialSleepTime * 2^(k-1), whether a 429 or a fault triggered the round
\* and whatever triggered the rounds before; the round's handleRetry sleep is
\* the k-th of its kind.
HandleRetrySleeps(c) == SelectSeq(calls[c].sleeps, LAMBDA s : s.by = "handleRetry")

C6_ExponentialBackoff ==
    \A c \in CallIds :
      /\ \A i \in 1 .. Len(calls[c].sleeps) :
           LET k == calls[c].sleeps[i].retry + 1
           IN /\ k >= 1
              /\ calls[c].sleeps[i].ms = initialSleepTime * Pow2(k - 1)
              /\ IsRetryTrigger(calls[c].outcomes[k])
      /\ \A k \in 1 .. Len(HandleRetrySleeps(c)) :
           /\ HandleRetrySleeps(c)[k].retry = k - 1
           /\ HandleRetrySleeps(c)[k].ms = initialSleepTime * Pow2(k - 1)
      /\ Started(c) /\ ~Ended(c) =>
           calls[c].currentSleepTime = initialSleepTime * Pow2(calls[c].retry)

\* C6 witness: a second retry round triggered by a fault after a first one
\* triggered by a 429, asleep with the doubled delay.
C6_Witness ==
    \E c \in CallIds :
      /\ Len(calls[c].outcomes) = 2
      /\ Is429(calls[c].outcomes[1])
      /\ IsFault(calls[c].outcomes[2])
      /\ calls[c].pc = "sleepRetry"
      /\ Len(HandleRetrySleeps(c)) = 2
      /\ HandleRetrySleeps(c)[2].ms = 2 * initialSleepTime

\* C7: the retry state of a call is its own: a call that has received no
\* answer yet has retry 0 and delay initialSleepTime, and at any time its
\* retry count is the number of retry rounds it went through itself and its
\* delay is the initial delay doubled once per such round, whatever the
\* other calls of the client did.
OwnRetries(c) ==
    IF calls[c].pc \in {"attempt", "returned"} THEN Len(calls[c].outcomes)
    ELSE Len(calls[c].outcomes) - 1

C7_RetryStatePerCall ==
    \A c \in CallIds :
      (Started(c) /\ maxRetry >= 0) =>
        /\ calls[c].outcomes = <<>> =>
             (calls[c].retry = 0 /\ calls[c].currentSleepTime = initialSleepTime)
        /\ calls[c].pc = "attempt" =>
             /\ calls[c].retry = Len(calls[c].outcomes)
             /\ calls[c].attempts = calls[c].retry + 1
        /\ calls[c].retry = calls[c].attempts - 1
        /\ calls[c].retry <= maxRetry
        /\ calls[c].currentSleepTime = initialSleepTime * Pow2(calls[c].retry)

\* C7 witness: two calls of one client going at once, one in its third
\* attempt and one in its first.
C7_Witness ==
    \E c, d \in CallIds :
      /\ c # d
      /\ calls[c].pc = "attempt" /\ calls[c].retry = 2
      /\ calls[d].pc = "attempt" /\ calls[d].retry = 0
      /\ calls[d].currentSleepTime = initialSleepTime

(***************************************************************************)
(* Properties of retrieval.                                                *)
(***************************************************************************)
SearchCalls(op) == SelectSeq(op.issued, LAMBDA request : IsSearchUrl(request.url))

FetchCalls(op) == SelectSeq(op.issued, LAMBDA request : IsFetchUrl(request.url))

\* The identifier a fetch call asks for.
FetchedId(request) == UrlParam(request.url, "db=pubmed&retmode=xml&id=")

\* The activations of operation o that have not been consumed.
InFlight(o) == {c \in CallIds : calls[c].pc # "idle" /\ calls[c].owner = o}

\* C8: when load has returned (the search gave id_1..id_n and every fetch
\* succeeded), its array has exactly n records in the order of the
\* identifier list, the i-th with uid = id_i and with the Title, Published
\* and Summary extracted from the body answering the i-th fetch call, which
\* is the call made for id_i.
C8_LoadInListOrder ==
    \A o \in OpIds :
      (ops[o].kind = "load" /\ ops[o].pc = "done") =>
        LET op == ops[o]
            fetches == FetchCalls(op)
        IN /\ op.value.kind = "array"
           /\ Len(op.value.items) = Len(op.idList)
           /\ Len(fetches) = Len(op.idList)
           /\ \A i \in 1 .. Len(op.idList) :
                /\ op.value.items[i].uid = op.idList[i]
                /\ FetchedId(fetches[i]) = op.idList[i]
                /\ \A body \in Bodies(fetches[i].url) :
                     LET own == extractArticleMetadata(op.idList[i], body.tree)
                     IN /\ op.value.items[i].Title = own.Title
                        /\ op.value.items[i].Published = own.Published
                        /\ op.value.items[i].Summary = own.Summary

\* load has returned two records for the list <<22, 11>>, a book chapter
\* first and a journal article second, each with its own document's fields.
C8_Witness ==
    /\ ops[1].kind = "load"
    /\ ops[1].pc = "done"
    /\ ops[1].idList = << <<"2", "2">>, <<"1", "1">> >>
    /\ corpus[<<"1", "1">>] = DocArticle
    /\ corpus[<<"2", "2">>] = DocBook
    /\ Len(ops[1].value.items) = 2
    /\ ops[1].value.items[1].uid = <<"2", "2">>
    /\ ops[1].value.items[1].Title = <<"B">>
    /\ ops[1].value.items[2].uid = <<"1", "1">>
    /\ ops[1].value.items[2].Title = <<"A">>
    /\ ops[1].value.items[2].Published = <<"2", "0", "2", "4", "-", "0", "5">>

\* C9: within one operation at most one transport call is in flight; the
\* fetch calls are made for the identifiers in list order, one each, and the
\* call for identifier N+1 is made only after the record of identifier N has
\* reached the consumer.
C9_SequentialStreamedFetches ==
    \A o \in OpIds :
      LET op == ops[o]
          fetches == FetchCalls(op)
      IN /\ Cardinality(InFlight(o)) <= 1
         /\ Len(fetches) <= Len(op.out) + 1
         /\ Len(fetches) <= Len(op.idList)
         /\ \A i \in 1 .. Len(fetches) : FetchedId(fetches[i]) = op.idList[i]
         /\ InFlight(o) # {} => op.pc \in {"search", "fetch"}
         /\ op.pc = "fetch" => /\ InFlight(o) = {op.call}
                               /\ Len(fetches) = Len(op.out) + 1
                               /\ calls[op.call].url = fetches[Len(fetches)].url

\* The call for the second identifier is in flight and the consumer holds
\* the first record.
C9_Witness ==
    /\ ops[1].kind \in {"lazyLoad", "lazyLoadDocs"}
    /\ ops[1].pc = "fetch"
    /\ Len(ops[1].idList) = 2
    /\ Len(ops[1].out) = 1
    /\ Len(FetchCalls(ops[1])) = 2
    /\ Active(ops[1].call)

\* C10: a lazy form never makes a fetch call its consumer has not asked an
\* element for; while the consumer holds k >= 1 elements, and after it has
\* stopped there, the operation has made exactly one search call and
\* exactly k fetch calls, for the first k identifiers, and has none in
\* flight.
C10_NoPrefetchAfterStop ==
    \A o \in OpIds :
      ops[o].kind \in {"lazyLoad", "lazyLoadDocs"} =>
        LET op == ops[o]
            k == Len(op.out)
        IN /\ Len(FetchCalls(op)) <= op.requested
           /\ Len(SearchCalls(op)) <= 1
           /\ (op.pc \in {"yielded", "closed"} /\ k >= 1) =>
                /\ Len(SearchCalls(op)) = 1
                /\ Len(FetchCalls(op)) = k
                /\ \A i \in 1 .. k : FetchedId(FetchCalls(op)[i]) = op.idList[i]
                /\ InFlight(o) = {}

\* The consumer of lazyLoadDocs stopped after the first of two elements.
C10_Witness ==
    /\ ops[1].kind = "lazyLoadDocs"
    /\ ops[1].pc = "closed"
    /\ Len(ops[1].idList) = 2
    /\ Len(ops[1].out) = 1
    /\ Len(FetchCalls(ops[1])) = 1
    /\ Len(SearchCalls(ops[1])) = 1

\* The continuation token of parsed search data, and its identifier list.
TokenOf(data) == Get(Get(data, "esearchresult"), "webenv")

IdlistOf(data) == Get(Get(data, "esearchresult"), "idlist")

LacksToken(op) == op.found # NoValue /\ IsFalsy(TokenOf(op.found))

\* C11: an operation whose search response lacks the continuation token
\* (no esearchresult, no webenv, or an empty one) has made one search call
\* and no fetch call, has delivered no record and has nothing in flight;
\* its failure is InvalidResponse, which load, loadDocs and the lazy forms
\* throw and which run returns as a string that starts with
\* "PubMed exception: " and carries the message.
C11_MissingTokenIsInvalidResponse ==
    \A o \in OpIds :
      LacksToken(ops[o]) =>
        LET op == ops[o]
        IN /\ Len(SearchCalls(op)) = 1
           /\ FetchCalls(op) = <<>>
           /\ op.out = <<>>
           /\ InFlight(o) = {}
           /\ op.error = InvalidResponse
           /\ IF op.kind = "run"
              THEN /\ op.pc = "done"
                   /\ op.value.kind = "string"
                   /\ op.value.s[1] = "PubMed exception: "
                   /\ \E i \in 1 .. Len(op.value.s) :
                        op.value.s[i] = "Invalid response from PubMed API"
              ELSE op.pc = "threw" /\ op.value = NoValue

\* load has thrown InvalidResponse on a search response that lists two
\* identifiers but has no webenv.
C11_Witness ==
    /\ ops[1].kind = "load"
    /\ ops[1].pc = "threw"
    /\ ops[1].found # NoValue
    /\ TokenOf(ops[1].found) = Undefined
    /\ IdlistOf(ops[1].found) # Undefined
    /\ Len(IdlistOf(ops[1].found).a) = 2
    /\ ops[1].error = InvalidResponse
    /\ ops[1].issued # <<>>

EmptySearch(op) ==
    /\ op.found # NoValue
    /\ ~IsFalsy(TokenOf(op.found))
    /\ IdlistOf(op.found) \in {Undefined, Arr(<<>>)}

\* C12: an operation whose search response has a continuation token and an
\* empty (or no) identifier list makes no fetch call and ends at once: run
\* returns exactly "No good PubMed Result was found", load an empty array.
C12_EmptyIdentifierList ==
    \A o \in OpIds :
      EmptySearch(ops[o]) =>
        LET op == ops[o]
        IN /\ FetchCalls(op) = <<>>
           /\ Len(SearchCalls(op)) = 1
           /\ op.error = NoValue
           /\ op.pc = "done"
           /\ op.kind = "run" => op.value = StringValue(NoGoodResult)
           /\ op.kind \in {"load", "loadDocs"} =>
                op.value = [kind |-> "array", items |-> <<>>]

\* run has returned the message on a search response with a token and an
\* empty identifier list.
C12_Witness ==
    /\ ops[1].kind = "run"
    /\ ops[1].pc = "done"
    /\ ops[1].found # NoValue
    /\ TokenOf(ops[1].found) = Str(<<"W", "1">>)
    /\ IdlistOf(ops[1].found) = Arr(<<>>)
    /\ ops[1].value.s = <<"No good PubMed Result was found">>
    /\ Len(ops[1].issued) = 1

\* C13: run never throws.  Whenever it has ended it has returned a string;
\* if anything failed on the way (the search call, the parsing of its
\* response, the check of the token, the fetch call of any identifier) the
\* string is "PubMed exception: " followed by the failure's name and
\* message and nothing else, whatever records had been retrieved before;
\* otherwise every identifier of the list was retrieved.
C13_RunNeverRaises ==
    \A o \in OpIds :
      ops[o].kind = "run" =>
        LET op == ops[o]
        IN /\ op.pc # "threw"
           /\ op.pc = "done" =>
                /\ op.value.kind = "string"
                /\ IF op.error = NoValue
                   THEN /\ op.found # NoValue
                        /\ Len(op.out) = Len(op.idList)
                        /\ Len(FetchCalls(op)) = Len(op.idList)
                   ELSE /\ op.value.s[1] = "PubMed exception: "
                        /\ op.value.s[2] = op.error.cls
                        /\ SubSeq(op.value.s, 4, Len(op.value.s))
                             = ErrorMessage(op.error)
           /\ op.error # NoValue => op.pc = "done"

\* run returned the exception string after the fetch call of the second
\* identifier failed with HTTP 500, one record already retrieved.
C13_Witness ==
    /\ ops[1].kind = "run"
    /\ ops[1].pc = "done"
    /\ Len(ops[1].idList) = 2
    /\ Len(ops[1].out) = 1
    /\ ops[1].error # NoValue
    /\ ops[1].error.cls = "HttpError"
    /\ ops[1].error.status = 500
    /\ ops[1].value.s[1] = "PubMed exception: "

\* C14: every search call of every operation carries the operation's input
\* query cut to maxQueryLength characters.
C14_QueryTruncated ==
    \A o \in OpIds :
      \A i \in 1 .. Len(SearchCalls(ops[o])) :
        UrlParam(SearchCalls(ops[o])[i].url, "db=pubmed&term=")
          = encodeURIComponent(Substring0(ops[o].input, wrapper.maxQueryLength))

\* C15: no operation makes more fetch calls than topKResults, and load
\* returns no more records than topKResults.
C15_BoundedByResultCount ==
    \A o \in OpIds :
      /\ Len(FetchCalls(ops[o])) <= wrapper.topKResults
      /\ (ops[o].kind = "load" /\ ops[o].pc = "done") =>
           Len(ops[o].value.items) <= wrapper.topKResults

\* The token a fetch call carries.
FetchedToken(request) == UrlParam(request.url, "&webenv=")

\* The i-th fetch call of op carries the token and the i-th identifier of the
\* search data op itself parsed.
OwnFetch(op, i) ==
    /\ op.found # NoValue
    /\ FetchedToken(FetchCalls(op)[i]) = StringOf(TokenOf(op.found))
    /\ IdlistOf(op.found) # Undefined
    /\ i <= Len(IdlistOf(op.found).a)
    /\ FetchedId(FetchCalls(op)[i]) = StringOf(IdlistOf(op.found).a[i])

\* C16: with two operations interleaved on one wrapper, every fetch call of
\* an operation carries the token of that operation's own search response
\* and one identifier of its own list, and the call it awaits is its own.
C16_TokenThreadedPerOperation ==
    \A o \in OpIds :
      /\ \A i \in 1 .. Len(FetchCalls(ops[o])) : OwnFetch(ops[o], i)
      /\ ops[o].pc \in {"search", "fetch"} =>
           /\ calls[ops[o].call].owner = o
           /\ calls[ops[o].call].url = ops[o].issued[Len(ops[o].issued)].url

\* Both operations are fetching, each with the token and the list of its own
\* search: W1 with <<11, 22>> and W2 with <<22>>.
C16_Witness ==
    /\ ops[1].pc = "fetch"
    /\ ops[2].pc = "fetch"
    /\ ops[1].webenv = <<"W", "1">>
    /\ ops[2].webenv = <<"W", "2">>
    /\ ops[1].idList = << <<"1", "1">>, <<"2", "2">> >>
    /\ ops[2].idList = << <<"2", "2">> >>
    /\ FetchedToken(calls[ops[1].call]) = <<"W", "1">>
    /\ FetchedToken(calls[ops[2].call]) = <<"W", "2">>
    /\ FetchedId(calls[ops[2].call]) = <<"2", "2">>

\* C17: an operation that has been asked for an element has made exactly
\* one search call, as its first call and for its own query, and every
\* fetch call it makes uses the token and the list of the response to that
\* call, also when another invocation with the same query has its search
\* data already.
C17_OneFreshSearchPerInvocation ==
    \A o \in OpIds :
      ops[o].requested >= 1 =>
        LET op == ops[o]
        IN /\ op.issued # <<>>
           /\ IsSearchUrl(op.issued[1].url)
           /\ Len(SearchCalls(op)) = 1
           /\ UrlParam(op.issued[1].url, "db=pubmed&term=")
                = encodeURIComponent(op.query)
           /\ op.found = NoValue => FetchCalls(op) = <<>>
           /\ \A i \in 1 .. Len(FetchCalls(op)) : OwnFetch(op, i)

\* The first invocation has ended with W1 and <<11>>; the second, with the
\* same query, made its own search and fetches with W2 and <<22, 11>>.
C17_Witness ==
    /\ ops[1].pc = "done"
    /\ ops[1].webenv = <<"W", "1">>
    /\ ops[1].idList = << <<"1", "1">> >>
    /\ ops[2].input = ops[1].input
    /\ ops[2].pc = "fetch"
    /\ Len(SearchCalls(ops[2])) = 1
    /\ ops[2].webenv = <<"W", "2">>
    /\ ops[2].idList = << <<"2", "2">>, <<"1", "1">> >>
    /\ FetchedToken(calls[ops[2].call]) = <<"W", "2">>

\* The records of an operation's identifiers, each from the document efetch
\* holds for it.
OwnRecords(op) ==
    [i \in 1 .. Len(op.idList) |->
       extractArticleMetadata(op.idList[i], corpus[op.idList[i]])]

\* One block per record, in identifier order, joined by a blank line.
AllBlocks(op) ==
    Join([i \in 1 .. Len(op.idList) |->
            PublishedLabel \o OwnRecords(op)[i].Published
            \o TitleLabel \o OwnRecords(op)[i].Title
            \o CopyrightLabel \o StringOf(OwnRecords(op)[i].Copyright)
            \o SummaryLabel \o OwnRecords(op)[i].Summary],
         <<"\n", "\n">>)

RunSucceeded(op) ==
    op.kind = "run" /\ op.pc = "done" /\ op.error = NoValue /\ Len(op.out) >= 1

\* C18: when run has retrieved at least one record, the string it returns
\* is the first docContentCharsMax characters of the blocks of all records
\* (Published, Title, Copyright Information, Summary) in identifier order
\* joined by a blank line: never longer than docContentCharsMax, and the
\* whole text when that is short enough.
C18_RunFormatsThenTruncates ==
    \A o \in OpIds :
      RunSucceeded(ops[o]) =>
        LET op == ops[o]
            full == AllBlocks(op)
            n == wrapper.docContentCharsMax
        IN /\ op.value.kind = "string"
           /\ Len(op.value.s) <= n
           /\ Len(op.value.s) = (IF Len(full) <= n THEN Len(full) ELSE n)
           /\ op.value.s = SubSeq(full, 1, Len(op.value.s))

\* run has returned 40 characters of the text of two records, which is
\* longer.
C18_Witness ==
    /\ RunSucceeded(ops[1])
    /\ Len(ops[1].out) = 2
    /\ wrapper.docContentCharsMax = 40
    /\ Len(AllBlocks(ops[1])) > 40
    /\ Len(ops[1].value.s) = 40
    /\ SubSeq(ops[1].value.s, 1, 11) = PublishedLabel

\* The abstract field of the document last extracted from: the AbstractText
\* of the Abstract of its article body, undefined when any of them is not
\* there.
AbstractField(xmlResponse) ==
    GetOpt(Get(extractArticleData(xmlResponse), "Abstract"), "AbstractText")

\* C19: for a document without abstract field (no article body, no
\* Abstract, or an Abstract without AbstractText) Summary is exactly
\* "No abstract available", and so not the empty string.
C19_MissingAbstractGivesSentinel ==
    (extracted # NoValue /\ AbstractField(extracted.xmlResponse) = Undefined) =>
       /\ extracted.metadata.Summary = NoAbstractAvailable
       /\ extracted.metadata.Summary # <<>>

\* Extraction from a document whose Abstract has a copyright note and no
\* AbstractText.
C19_Witness ==
    /\ extracted # NoValue
    /\ HasKey(extractArticleData(extracted.xmlResponse), "Abstract")
    /\ Get(extractArticleData(extracted.xmlResponse), "Abstract")
         = Obj(<<"CopyrightInformation">>, <<Str(<<"c">>)>>)
    /\ extracted.metadata.Summary = NoAbstractAvailable
    /\ extracted.metadata.Copyright = Str(<<"c">>)

\* C20: for a document whose abstract field is a plain string, Summary is
\* that string, the empty string included.
C20_StringAbstractVerbatim ==
    (extracted # NoValue /\ AbstractField(extracted.xmlResponse).t = "string") =>
       extracted.metadata.Summary = AbstractField(extracted.xmlResponse).s

\* The lines "LABEL: text" of the entries that have a label and a text, in
\* the order of the entries.
RECURSIVE SectionLines(_)
SectionLines(entries) ==
    IF entries = <<>> THEN <<>>
    ELSE (IF HasKey(entries[1], "@Label") /\ HasKey(entries[1], "#text")
          THEN <<StringOf(Get(entries[1], "@Label")) \o <<":", " ">>
                 \o StringOf(Get(entries[1], "#text"))>>
          ELSE <<>>) \o SectionLines(Tail(entries))

\* The lines separated by newlines.
RECURSIVE Lines(_)
Lines(lines) ==
    IF Len(lines) = 1 THEN lines[1]
    ELSE lines[1] \o <<"\n">> \o Lines(Tail(lines))

\* C21: for an abstract that is a sequence of sections, Summary is the lines
\* "LABEL: text" of exactly the entries having both a label and a text, in
\* their order, joined by newlines; when no entry qualifies (the empty
\* sequence included) Summary is "No abstract available".
C21_SectionsJoinedInOrder ==
    (extracted # NoValue /\ AbstractField(extracted.xmlResponse).t = "array") =>
       LET lines == SectionLines(AbstractField(extracted.xmlResponse).a)
       IN extracted.metadata.Summary
            = IF lines = <<>> THEN NoAbstractAvailable ELSE Lines(lines)

\* Extraction from an abstract of four entries of which the first and the
\* last have label and text.
C21_Witness ==
    /\ extracted # NoValue
    /\ AbstractField(extracted.xmlResponse).t = "array"
    /\ Len(AbstractField(extracted.xmlResponse).a) = 4
    /\ extracted.metadata.Summary
         = <<"L", ":", " ", "m", "\n", "R", ":", " ", "n">>

\* The string-typed values of a record, in key order.
RECURSIVE StringValues(_)
StringValues(values) ==
    IF values = <<>> THEN <<>>
    ELSE (IF values[1].t = "string" THEN <<values[1].s>> ELSE <<>>)
         \o StringValues(Tail(values))

\* C22: for an abstract that is a generic record, Summary is the string-typed
\* values in key order joined by newlines (numbers, booleans and nested
\* records are skipped), and "No abstract available" when there is none.
C22_RecordStringValuesJoined ==
    (extracted # NoValue /\ AbstractField(extracted.xmlResponse).t = "object") =>
       LET values == StringValues(AbstractField(extracted.xmlResponse).v)
       IN extracted.metadata.Summary
            = IF values = <<>> THEN NoAbstractAvailable ELSE Lines(values)

\* Extraction from a record with two strings around a number, a boolean and
\* a nested record.
C22_Witness ==
    /\ extracted # NoValue
    /\ AbstractField(extracted.xmlResponse).t = "object"
    /\ Len(AbstractField(extracted.xmlResponse).v) = 5
    /\ extracted.metadata.Summary = <<"p", "\n", "q">>
\* The ArticleDate of the article body of a document.
DateField(xmlResponse) ==
    Get(extractArticleData(xmlResponse), "ArticleDate")

DigitChars == {"0", "1", "2", "3", "4", "5", "6", "7", "8", "9"}

\* "", YYYY, YYYY-MM or YYYY-MM-DD.
IsDateForm(s) ==
    /\ Len(s) \in {0, 4, 7, 10}
    /\ \A i \in 1 .. Len(s) :
          IF i \in {5, 8} THEN s[i] = "-" ELSE s[i] \in DigitChars

\* C23: whatever subset of Year, Month and Day a document supplies, Published
\* is empty or of the form YYYY, YYYY-MM or YYYY-MM-DD.
C23_PublishedHasDateForm ==
    (/\ extracted # NoValue
     /\ DateField(extracted.xmlResponse).t = "object"
     /\ \A i \in 1 .. Len(DateField(extracted.xmlResponse).v) :
           DateField(extracted.xmlResponse).v[i].t = "number") =>
       IsDateForm(extracted.metadata.Published)

\* A number below 100 written with two digits.
TwoDigits(n) == <<Digit(n \div 10), Digit(n % 10)>>

\* The date of a year, of a year and a month, of a year, a month and a day.
DateOf(values) ==
    CASE Len(values) = 0 -> <<>>
      [] Len(values) = 1 -> Digits(values[1].n)
      [] Len(values) = 2 -> Digits(values[1].n) \o <<"-">> \o TwoDigits(values[2].n)
      [] OTHER -> Digits(values[1].n) \o <<"-">> \o TwoDigits(values[2].n)
                  \o <<"-">> \o TwoDigits(values[3].n)

\* C24: a date of no component gives "", of Year gives YYYY, of Year and
\* Month gives YYYY-MM, of Year, Month and Day gives YYYY-MM-DD, months and
\* days written with two digits; each form extends the one before it.
C24_DateFormsByComponents ==
    (/\ extracted # NoValue
     /\ DateField(extracted.xmlResponse).t = "object"
     /\ DateField(extracted.xmlResponse).k
          \in {<<>>, <<"Year">>, <<"Year", "Month">>, <<"Year", "Month", "Day">>}
     /\ \A i \in 1 .. Len(DateField(extracted.xmlResponse).v) :
           DateField(extracted.xmlResponse).v[i].t = "number") =>
       LET values == DateField(extracted.xmlResponse).v
       IN /\ extracted.metadata.Published = DateOf(values)
          /\ \A n \in 0 .. Len(values) :
                LET shorter == DateOf(SubSeq(values, 1, n))
                IN SubSeq(extracted.metadata.Published, 1, Len(shorter)) = shorter

\* Extraction from a date of year 2024, month 5 and day 7.
C24_Witness ==
    /\ extracted # NoValue
    /\ DateField(extracted.xmlResponse)
         = Obj(<<"Year", "Month", "Day">>, <<Num(2024), Num(5), Num(7)>>)
    /\ extracted.metadata.Published
         = <<"2", "0", "2", "4", "-", "0", "5", "-", "0", "7">>
\* C25: every record extracted, whatever the tree (the tree of a text that is
\* no document included), has the five fields uid, Title, Published,
\* Copyright Information and Summary, each a string, and uid is the
\* identifier passed in.
C25_FiveStringFields ==
    extracted # NoValue =>
       /\ DOMAIN extracted.metadata
            = {"uid", "Title", "Published", "Copyright", "Summary"}
       /\ extracted.metadata.uid = extracted.uid
       /\ extracted.metadata.uid \in Seq(STRING)
       /\ extracted.metadata.Title \in Seq(STRING)
       /\ extracted.metadata.Published \in Seq(STRING)
       /\ extracted.metadata.Summary \in Seq(STRING)
       /\ extracted.metadata.Copyright.t = "string"

\* The value at the end of a path of property names, undefined as soon as a
\* step is missing.
RECURSIVE At(_, _)
At(value, path) ==
    IF path = <<>> THEN value
    ELSE IF HasKey(value, path[1]) THEN At(Get(value, path[1]), Tail(path))
    ELSE Undefined

ArticlePath == <<"PubmedArticleSet", "PubmedArticle", "MedlineCitation", "Article">>
BookPath == <<"PubmedArticleSet", "PubmedBookArticle", "BookDocument">>

\* The record of an article body.
RecordOf(uid, body) ==
    LET title == Get(body, "ArticleTitle")
        copyright == At(body, <<"Abstract", "CopyrightInformation">>)
    IN [uid |-> uid,
        Title |-> IF title.t = "string" THEN title.s
                  ELSE IF title.t = "undefined" THEN <<>>
                  ELSE JsonText(title),
        Published |-> extractPublicationDate(body),
        Copyright |-> IF copyright = Undefined THEN Str(<<>>) ELSE copyright,
        Summary |-> extractAbstract(body)]

\* C26: the record is that of the body at the article citation path when
\* there is one, else of the body at the book path, else of the empty
\* record, which gives uid as passed, Title "", Published "", Copyright
\* Information "" and Summary "No abstract available".
C26_ArticleThenBookThenEmpty ==
    extracted # NoValue =>
       LET article == At(extracted.xmlResponse, ArticlePath)
           book == At(extracted.xmlResponse, BookPath)
       IN IF article # Undefined
          THEN extracted.metadata = RecordOf(extracted.uid, article)
          ELSE IF book # Undefined
          THEN extracted.metadata = RecordOf(extracted.uid, book)
          ELSE extracted.metadata
                 = [uid |-> extracted.uid, Title |-> <<>>, Published |-> <<>>,
                    Copyright |-> Str(<<>>), Summary |-> NoAbstractAvailable]

\* Extraction from a document with a body titled "A" at the article path and
\* one titled "B" at the book path.
C26_Witness ==
    /\ extracted # NoValue
    /\ At(extracted.xmlResponse, ArticlePath \o <<"ArticleTitle">>) = Str(<<"A">>)
    /\ At(extracted.xmlResponse, BookPath \o <<"ArticleTitle">>) = Str(<<"B">>)
    /\ extracted.metadata.Title = <<"A">>

\* The ArticleTitle of the article body of a document.
TitleField(xmlResponse) ==
    Get(extractArticleData(xmlResponse), "ArticleTitle")

\* C27: Title is the title field when that is a string, the empty string
\* when there is none, the JSON text of the value otherwise, and never the
\* text "undefined".
C27_TitleStringOrSerialized ==
    extracted # NoValue =>
       LET title == TitleField(extracted.xmlResponse)
       IN /\ extracted.metadata.Title
               = (CASE title.t = "string" -> title.s
                    [] title.t = "undefined" -> <<>>
                    [] OTHER -> JsonText(title))
          /\ extracted.metadata.Title
               # <<"u", "n", "d", "e", "f", "i", "n", "e", "d">>
          /\ title = Num(7) => extracted.metadata.Title = <<"7">>
          /\ title.t = "object" => extracted.metadata.Title[1] = "{"

\* Extraction from a title with markup in it.
C27_Witness ==
    /\ extracted # NoValue
    /\ TitleField(extracted.xmlResponse)
         = Obj(<<"#text", "i">>, <<Str(<<"a">>), Str(<<"b">>)>>)
    /\ extracted.metadata.Title
         = <<"{", "\"", "#", "t", "e", "x", "t", "\"", ":", "\"", "a", "\"", ",",
             "\"", "i", "\"", ":", "\"", "b", "\"", "}">>
\* The document is made of the record: the content is Summary, the metadata
\* are uid, Title, Published and Copyright Information as they were, and
\* nothing else.
DocumentOf(document, record) ==
    /\ DOMAIN document = {"pageContent", "metadata"}
    /\ document.pageContent = record.Summary
    /\ DOMAIN document.metadata = {"uid", "Title", "Published", "Copyright"}
    /\ document.metadata.uid = record.uid
    /\ document.metadata.Title = record.Title
    /\ document.metadata.Published = record.Published
    /\ document.metadata.Copyright = record.Copyright

\* C28: every document that loadDocs and lazyLoadDocs hand out is made of the
\* record of its identifier (content Summary, metadata the other four fields
\* unchanged, no Summary among them), and loadDocs returns one document per
\* record that load returns, in the same order.
C28_DocumentsMirrorRecords ==
    \A o \in OpIds :
      YieldsDocuments(ops[o].kind) =>
        /\ Len(ops[o].out) <= Len(ops[o].idList)
        /\ \A i \in 1 .. Len(ops[o].out) :
              DocumentOf(ops[o].out[i], OwnRecords(ops[o])[i])
        /\ (ops[o].kind = "loadDocs" /\ ops[o].pc = "done") =>
              /\ ops[o].value.kind = "array"
              /\ Len(ops[o].value.items) = Len(OwnRecords(ops[o]))
              /\ \A i \in 1 .. Len(ops[o].value.items) :
                    DocumentOf(ops[o].value.items[i], OwnRecords(ops[o])[i])

\* loadDocs has returned the documents of two records with different
\* summaries.
C28_Witness ==
    /\ ops[1].kind = "loadDocs"
    /\ ops[1].pc = "done"
    /\ ops[1].value # NoValue
    /\ Len(ops[1].value.items) = 2
    /\ ops[1].value.items[1].pageContent = OwnRecords(ops[1])[1].Summary
    /\ ops[1].value.items[1].pageContent # ops[1].value.items[2].pageContent
    /\ ops[1].value.items[1].metadata.uid = ops[1].idList[1]
\* C29: a call whose first attempt is answered with a 2xx status has
\* returned that response after this one attempt, without a diagnostic line
\* and without a backoff sleep.
C29_FirstAttemptSuccessIsSilent ==
    \A c \in CallIds :
      (Len(calls[c].outcomes) >= 1 /\ Is2xx(calls[c].outcomes[1])) =>
        /\ calls[c].pc = "returned"
        /\ calls[c].response # NoValue
        /\ calls[c].response.status = calls[c].outcomes[1].status
        /\ Len(calls[c].outcomes) = 1
        /\ calls[c].attempts = 1
        /\ calls[c].retry = 0
        /\ calls[c].logs = <<>>
        /\ calls[c].sleeps = <<>>
        /\ calls[c].sleeping = 0

\* A call with a context label and retries to spare has returned the 204 its
\* first attempt was answered with.
C29_Witness ==
    /\ calls[1].pc = "returned"
    /\ calls[1].outcomes = <<[status |-> 204, fault |-> ""]>>
    /\ calls[1].response.status = 204
    /\ calls[1].context # <<>>
    /\ maxRetry >= 1

\* C30: for every retry (every backoff the call went into) there is a
\* diagnostic line that names the trigger of that retry (rate limiting after
\* a 429, network error after a fault) and carries the context label, the
\* backoff of that retry, and the number of the retry out of maxRetry.
C30_RetryLineNamesTriggerAndBackoff ==
    \A c \in CallIds :
      \A i \in 1 .. Len(calls[c].outcomes) :
        (\E j \in 1 .. Len(calls[c].sleeps) : calls[c].sleeps[j].retry = i - 1) =>
          \E n \in 1 .. Len(calls[c].logs) :
            /\ calls[c].logs[n].line
                 = (IF Is429(calls[c].outcomes[i]) THEN "Rate limited"
                    ELSE "Network error")
            /\ calls[c].logs[n].label = formatContext(calls[c].context)
            /\ calls[c].logs[n].waitMs = initialSleepTime * Pow2(i - 1)
            /\ calls[c].logs[n].attempt = i
            /\ calls[c].logs[n].of = maxRetry
\* C31: a call that has failed with retries to spare has failed with an
\* HttpError made from the non-2xx answer to its last attempt; a fault thrown
\* by the network with retries to spare is followed by a backoff and another
\* attempt, whatever the fault's message.
C31_ForeignFaultsRetried ==
    \A c \in CallIds :
      LET o == calls[c].outcomes
          n == Len(o)
      IN (maxRetry >= 0 /\ calls[c].pc = "threw" /\ calls[c].retry < maxRetry) =>
           /\ n >= 1
           /\ IsOtherNon2xx(o[n])
           /\ calls[c].error.cls = "HttpError"
\* The call is in a backoff sleep.
Asleep(c) == calls[c].pc \in {"sleepRateLimit", "sleepRetry"}

\* The nominal delay of the sleep the call is in, in ms.
Nominal(c) == calls[c].sleeps[Len(calls[c].sleeps)].ms

\* C32: the duration of every backoff sleep is at least 100 ms and, when
\* three quarters of the nominal delay are at least 100 ms, between three
\* quarters and five quarters of the nominal delay.
C32_JitterWithinQuarterAndFloor ==
    \A c \in CallIds :
      Asleep(c) =>
        /\ calls[c].sleeping >= 100 * DurationUnit
        /\ 3 * Nominal(c) >= 4 * 100 =>
              /\ 4 * calls[c].sleeping >= 3 * Nominal(c) * DurationUnit
              /\ 4 * calls[c].sleeping <= 5 * Nominal(c) * DurationUnit

\* A sleep of nominally 200 ms that lasts 150 ms: the lowest draw.
C32_Witness ==
    /\ Asleep(1)
    /\ Nominal(1) = 200
    /\ calls[1].sleeping = 150 * DurationUnit
\* The URL has the parameter that the literal piece introduces.
HasParam(url, piece) == \E i \in 1 .. Len(url) : url[i] = piece

\* C33: every search URL and every fetch URL the wrapper requests has the
\* email parameter with the (encoded) address; it has the api_key parameter
\* with the configured key when one is configured, and no api_key parameter
\* at all when none is.
C33_ApiKeyOmittedWhenUnset ==
    \A o \in OpIds :
      \A i \in 1 .. Len(ops[o].issued) :
        LET url == ops[o].issued[i].url
        IN /\ IsSearchUrl(url) \/ IsFetchUrl(url)
           /\ HasParam(url, "&email=")
           /\ UrlParam(url, "&email=") = encodeURIComponent(wrapper.email)
           /\ wrapper.apiKey # <<>> =>
                 /\ HasParam(url, "&api_key=")
                 /\ UrlParam(url, "&api_key=") = wrapper.apiKey
           /\ wrapper.apiKey = <<>> => ~HasParam(url, "&api_key=")

\* An operation of a wrapper with the key "k1" has requested the search and
\* a document, both with the key; the address is the default one.
C33_Witness ==
    /\ wrapper.apiKey = <<"k", "1">>
    /\ Len(ops[1].issued) >= 2
    /\ IsSearchUrl(ops[1].issued[1].url)
    /\ IsFetchUrl(ops[1].issued[2].url)
    /\ UrlParam(ops[1].issued[1].url, "&api_key=") = <<"k", "1">>
    /\ UrlParam(ops[1].issued[2].url, "&api_key=") = <<"k", "1">>
    /\ HasParam(ops[1].issued[2].url, "&email=")
\* The options the wrapper was constructed with.
Constructed(options) == options \in RetrievalOptions /\ wrapper = NewWrapper(options)

\* C34: a wrapper constructed without the topKResults option asks for 3
\* results: its search URLs have retmax=3.
C34_DefaultResultCountIs3 ==
    \A options \in RetrievalOptions :
      (Constructed(options) /\ options.topKResults = <<>>) =>
        \A o \in OpIds :
          \A i \in 1 .. Len(ops[o].issued) :
            IsSearchUrl(ops[o].issued[i].url) =>
              UrlParam(ops[o].issued[i].url, "&retmode=json&retmax=") = <<"3">>

\* C35: a wrapper constructed without the docContentCharsMax option cuts
\* the text run returns to 2000 characters.
C35_DefaultContentCapIs2000 ==
    \A options \in RetrievalOptions :
      (Constructed(options) /\ options.docContentCharsMax = <<>>) =>
        /\ wrapper.docContentCharsMax = 2000
        /\ \A o \in OpIds :
              RunSucceeded(ops[o]) => Len(ops[o].value.s) <= 2000
\* The nominal delays of the sleeps the call went into before retry k.
RECURSIVE SumMs(_)
SumMs(sleeps) ==
    IF sleeps = <<>> THEN 0 ELSE sleeps[1].ms + SumMs(Tail(sleeps))

WaitBefore(c, k) ==
    SumMs(SelectSeq(calls[c].sleeps, LAMBDA s : s.retry = k - 1))

\* C36: between two consecutive attempts of a call there is exactly one
\* sleep: once attempt k + 1 is made, the nominal wait before it (before
\* retry k) is initialSleepTime * 2^(k-1), whether retry k followed a 429 or
\* a fault.
C36_OneSleepPerRetry ==
    \A c \in CallIds :
      \A k \in 1 .. calls[c].retry :
        /\ Cardinality({j \in 1 .. Len(calls[c].sleeps) :
                          calls[c].sleeps[j].retry = k - 1}) = 1
        /\ WaitBefore(c, k) = initialSleepTime * Pow2(k - 1)
\* The operation has a search result with identifiers and has ended without
\* having handed out an element for each of them.
EndedShort(op) ==
    /\ op.kind \in {"lazyLoad", "lazyLoadDocs", "load", "loadDocs"}
    /\ op.pc \in {"done", "threw"}
    /\ op.idx >= 1
    /\ Len(op.out) < Len(op.idList)

\* C37: when the call for identifier number k fails, the operation has
\* ended with that failure: the consumer has received exactly the elements
\* of identifiers 1..k-1, in order, the fetch calls made are those for
\* identifiers 1..k, and load and loadDocs have thrown the error without
\* returning anything.
C37_FailureAtKthIdentifier ==
    \A o \in OpIds :
      EndedShort(ops[o]) =>
        LET op == ops[o]
            k == op.idx
        IN /\ op.pc = "threw"
           /\ op.error # NoValue
           /\ op.error.cls \in {"HttpError", "Error", "TypeError"}
           /\ op.error.cls = "HttpError" =>
                op.error.label = <<" (">> \o <<"article ">> \o op.idList[k] \o <<")">>
           /\ op.value = NoValue
           /\ Len(op.out) = k - 1
           /\ \A i \in 1 .. k - 1 :
                 op.out[i] = IF YieldsDocuments(op.kind)
                             THEN toDocument(OwnRecords(op)[i])
                             ELSE OwnRecords(op)[i]
           /\ Len(FetchCalls(op)) = k
           /\ \A i \in 1 .. k : FetchedId(FetchCalls(op)[i]) = op.idList[i]
           /\ ~Eager(op.kind) => op.requested = k

\* lazyLoad has failed with HTTP 500 at the second of two identifiers, the
\* consumer holding the first record.
C37_Witness ==
    /\ ops[1].kind = "lazyLoad"
    /\ ops[1].pc = "threw"
    /\ Len(ops[1].idList) = 2
    /\ ops[1].idx = 2
    /\ Len(ops[1].out) = 1
    /\ ops[1].out[1].uid = ops[1].idList[1]
    /\ ops[1].error.cls = "HttpError"
    /\ ops[1].error.status = 500
\* The answer to the call's last attempt.
LastAnswer(c) == calls[c].outcomes[Len(calls[c].outcomes)]

\* C38: with maxRetry >= 0 a call that has ended has returned the 2xx
\* response to its last attempt, or thrown the HttpError for the non-2xx
\* answer to it, or the rate-limit error after a 429, or the fault the last
\* attempt ended in; it has thrown neither the RetryableError nor the
\* "Failed to fetch" error.
C38_FourOutcomes ==
    \A c \in CallIds :
      (maxRetry >= 0 /\ Ended(c)) =>
        /\ Len(calls[c].outcomes) >= 1
        /\ \/ /\ calls[c].pc = "returned"
              /\ Is2xx(LastAnswer(c))
              /\ calls[c].response.status = LastAnswer(c).status
              /\ calls[c].error = NoValue
           \/ /\ calls[c].pc = "threw"
              /\ IsOtherNon2xx(LastAnswer(c))
              /\ calls[c].error.cls = "HttpError"
              /\ calls[c].error.status = LastAnswer(c).status
           \/ /\ calls[c].pc = "threw"
              /\ Is429(LastAnswer(c))
              /\ calls[c].error = createRateLimitError(calls[c].context)
           \/ /\ calls[c].pc = "threw"
              /\ IsFault(LastAnswer(c))
              /\ calls[c].error \in Faults
              /\ calls[c].error.text = LastAnswer(c).fault
        /\ calls[c].pc = "threw" =>
              /\ calls[c].error # RetryableError
              /\ calls[c].error.cls # "RetryableError"
              /\ calls[c].error.text # "Failed to fetch"

\* A call with two retries has thrown the fault its third attempt ended in,
\* after a 429 and a fault.
C38_Witness ==
    /\ maxRetry = 2
    /\ calls[1].pc = "threw"
    /\ Len(calls[1].outcomes) = 3
    /\ Is429(calls[1].outcomes[1])
    /\ IsFault(calls[1].outcomes[2])
    /\ IsFault(calls[1].outcomes[3])
    /\ calls[1].error.text = "fetch failed"
Lazy(kind) == kind \in {"lazyLoad", "lazyLoadDocs"}

\* C39: a lazy form that was created and not yet asked for an element has
\* made no call; its search call is made when the first element is asked
\* for, and its fetch call number i, which is for identifier i, when the
\* i-th element is asked for.
C39_NoCallBeforeRequest ==
    \A o \in OpIds :
      Lazy(ops[o].kind) =>
        LET op == ops[o]
        IN /\ op.pc = "created" => op.requested = 0
           /\ op.requested = 0 => (op.issued = <<>> /\ InFlight(o) = {})
           /\ Len(SearchCalls(op)) = (IF op.requested >= 1 THEN 1 ELSE 0)
           /\ op.requested >= 1 => IsSearchUrl(op.issued[1].url)
           /\ \A i \in 1 .. Len(FetchCalls(op)) :
                 /\ i <= op.requested
                 /\ FetchedId(FetchCalls(op)[i]) = op.idList[i]

\* lazyLoad was created and has not been asked for an element, while the
\* network is idle.
C39_Witness ==
    /\ ops[1].kind = "lazyLoad"
    /\ ops[1].pc = "created"
    /\ ops[1].requested = 0
    /\ ops[1].issued = <<>>
    /\ \A c \in CallIds : calls[c].pc = "idle"
\* The operation is under way.
Running(o) == ops[o].pc \in {"created", "search", "fetch", "yielded"}

\* What an operation has done so far is bounded by its identifier list: at
\* most one element per identifier, at most one call per identifier and one
\* for the search, each call of at most maxRetry + 1 attempts, one call at
\* a time.
WithinBounds(o) ==
    LET n == Len(ops[o].idList)
    IN /\ Len(ops[o].out) <= n
       /\ Len(ops[o].issued) <= n + 1
       /\ Cardinality(InFlight(o)) <= 1
       /\ \A c \in InFlight(o) :
             /\ calls[c].attempts <= maxRetry + 1
             /\ Len(calls[c].outcomes) <= calls[c].attempts
       /\ Len(ops[o].issued) * (maxRetry + 1) <= (n + 1) * (maxRetry + 1)

\* C40: when every attempt and every sleep comes to an end and the consumer
\* goes on, an operation under way ends (completes, fails, or is closed),
\* and at all times it has handed out at most n elements and made at most
\* n + 1 calls of at most maxRetry + 1 attempts each, n being the number of
\* identifiers of its search result.
C40_RetrievalTerminates ==
    /\ [](WithinBounds(1))
    /\ Running(1) ~> OpEnded(1)

\* lazyLoad is done after two records, three calls made.
C40_Witness ==
    /\ ops[1].kind = "lazyLoad"
    /\ ops[1].pc = "done"
    /\ maxRetry = 1
    /\ Len(ops[1].idList) = 2
    /\ Len(ops[1].out) = 2
    /\ Len(ops[1].issued) = 3

====
